---- MODULE Spec2Model ----
(***************************************************************************)
(* The gym-membership roster of api/clients.js: one request handler over   *)
(* one Mongoose model (Client), and the documents of its collection.       *)
(*                                                                         *)
(* The store is Mongoose 5.x over MongoDB: the options dbConnect passes    *)
(* (bufferMaxEntries, useNewUrlParser, useUnifiedTopology) are those of    *)
(* that major version, and later ones refuse them.  Its part in each       *)
(* request is modelled by what the calls of the handler do there: casting  *)
(* by schema type, the schema's validators, the two unique indexes, and    *)
(* one atomic document operation per call.  The server's time zone is UTC  *)
(* (the deployment named by API_URL), so the local-time getMonth/setMonth  *)
(* of the handler work on UTC fields.                                      *)
(***************************************************************************)
EXTENDS Integers, Sequences, FiniteSets, TLC

(***************************************************************************)
(* Bounds of the model.                                                    *)
(***************************************************************************)
\* ObjectIds the store can assign before Create is no longer explored.
MaxId == 2
\* Replace handlers that can be between their findById and their update.
MaxInFlight == 2
\* Midnights the clock can pass during a run.
MaxTicks == 1
\* Requests that can be awaiting one connection attempt.
MaxWaiting == 2
\* Connection attempts (calls of mongoose.connect) explored.
MaxConnects == 3
\* Confirm dialogs the page opens.
MaxDialogs == 2
\* Records in a response to List.
MaxListed == 3
\* Requests one call of fetchWithRetry can issue before it is no longer
\* explored.
MaxRequests == 6

(***************************************************************************)
(* JavaScript values, as a request body or a document path holds them.     *)
(* A string is the sequence of its characters.                             *)
(***************************************************************************)
Undef == [t |-> "undefined"]
Null == [t |-> "null"]
Str(s) == [t |-> "string", s |-> s]
Num(n) == [t |-> "number", n |-> n]
Bool(b) == [t |-> "boolean", b |-> b]
\* A Date with a valid time value, held as its UTC day number (days since
\* 1970-01-01; every date of the program is a UTC midnight), and the Date
\* whose time value is NaN.
DateV(d) == [t |-> "date", d |-> d]
InvalidDate == [t |-> "invalid-date"]
\* The number NaN.
NaN == [t |-> "nan"]

IsStr(v) == v.t = "string"
IsNum(v) == v.t = "number"

\* ToBoolean: what `!x`, `x || y` and `x ? y : z` test.
Truthy(v) ==
  CASE v.t = "undefined" -> FALSE
    [] v.t = "null" -> FALSE
    [] v.t = "nan" -> FALSE
    [] v.t = "boolean" -> v.b
    [] v.t = "number" -> v.n # 0
    [] v.t = "string" -> Len(v.s) > 0
    [] OTHER -> TRUE

\* a || b
JsOr(a, b) == IF Truthy(a) THEN a ELSE b

(***************************************************************************)
(* Strings.                                                                *)
(***************************************************************************)
Digits == {"0", "1", "2", "3", "4", "5", "6", "7", "8", "9"}

DigitVal(c) ==
  CASE c = "0" -> 0 [] c = "1" -> 1 [] c = "2" -> 2 [] c = "3" -> 3
    [] c = "4" -> 4 [] c = "5" -> 5 [] c = "6" -> 6 [] c = "7" -> 7
    [] c = "8" -> 8 [] c = "9" -> 9

\* /^\d{n}$/.test(s)
MatchesDigits(s, n) == Len(s) = n /\ \A i \in 1..Len(s) : s[i] \in Digits

RECURSIVE TrimLeft(_)
TrimLeft(s) == IF s # <<>> /\ Head(s) = " " THEN TrimLeft(Tail(s)) ELSE s

RECURSIVE TrimRight(_)
TrimRight(s) ==
  IF s # <<>> /\ s[Len(s)] = " " THEN TrimRight(SubSeq(s, 1, Len(s) - 1)) ELSE s

\* String.prototype.trim, the setter of a schema path with trim: true.
Trim(s) == TrimRight(TrimLeft(s))

\* The value of a string of decimal digits.
RECURSIVE DigitsValue(_)
DigitsValue(s) ==
  IF s = <<>> THEN 0
  ELSE 10 * DigitsValue(SubSeq(s, 1, Len(s) - 1)) + DigitVal(s[Len(s)])

\* ToNumber of a string: white space is trimmed, the empty string is 0, a
\* string of digits is its value (the strings of the model carry no sign, no
\* point and no exponent), anything else is NaN.
StringToNumber(s) ==
  LET u == Trim(s)
  IN IF \A i \in 1..Len(u) : u[i] \in Digits THEN Num(DigitsValue(u)) ELSE NaN

\* The decimal digits of a natural number, as Number::toString gives them.
RECURSIVE NatToString(_)
NatToString(n) ==
  IF n < 10 THEN <<CHOOSE c \in Digits : DigitVal(c) = n>>
  ELSE Append(NatToString(n \div 10), CHOOSE c \in Digits : DigitVal(c) = n % 10)

(***************************************************************************)
(* Calendar arithmetic of Date, on UTC day numbers.                        *)
(***************************************************************************)
\* Day(t) of the first day of month m (1..12) of year y, plus d - 1.
DaysFromCivil(y, m, d) ==
  LET yy == IF m <= 2 THEN y - 1 ELSE y
      era == yy \div 400
      yoe == yy - era * 400
      mp == IF m > 2 THEN m - 3 ELSE m + 9
      doy == (153 * mp + 2) \div 5 + d - 1
      doe == yoe * 365 + yoe \div 4 - yoe \div 100 + doy
  IN era * 146097 + doe - 719468

\* YearFromTime, MonthFromTime (here 1..12) and DateFromTime of a day number.
CivilFromDays(z) ==
  LET zz == z + 719468
      era == zz \div 146097
      doe == zz - era * 146097
      yoe == (doe - doe \div 1460 + doe \div 36524 - doe \div 146096) \div 365
      doy == doe - (365 * yoe + yoe \div 4 - yoe \div 100)
      mp == (5 * doy + 2) \div 153
      d == doy - (153 * mp + 2) \div 5 + 1
      m == IF mp < 10 THEN mp + 3 ELSE mp - 9
      y == yoe + era * 400 + (IF m <= 2 THEN 1 ELSE 0)
  IN [y |-> y, m |-> m, d |-> d]

\* Date.prototype.getMonth: 0..11.
GetMonth(date) == CivilFromDays(date.d).m - 1

\* MakeDay(year, month, date) with a month index of any size: the year and
\* month are normalised, and the day of the month counts on from the first
\* of that month, into the following month when the month is too short.
MakeDay(year, month, date) ==
  DaysFromCivil(year + month \div 12, (month % 12) + 1, 1) + date - 1

\* Date.prototype.setMonth(m) for a numeric argument: the returned time value.
SetMonth(date, m) ==
  IF m.t = "nan" THEN NaN
  ELSE LET c == CivilFromDays(date.d) IN Num(MakeDay(c.y, m.n, c.d))

\* Date.prototype.getMonth of any Date: NaN for the invalid one.
GetMonthOf(date) == IF date.t = "date" THEN Num(GetMonth(date)) ELSE NaN

\* ToString of a number of the model (an integer).
NumberToString(n) == IF n < 0 THEN <<"-">> \o NatToString(0 - n) ELSE NatToString(n)

\* ToNumber.
ToNumber(v) ==
  CASE v.t = "number" -> v
    [] v.t = "nan" -> NaN
    [] v.t = "undefined" -> NaN
    [] v.t = "null" -> Num(0)
    [] v.t = "boolean" -> Num(IF v.b THEN 1 ELSE 0)
    [] v.t = "string" -> StringToNumber(v.s)

\* a + b for a number a (or NaN): string concatenation when b is a string,
\* numeric addition otherwise.
JsAdd(a, b) ==
  IF b.t = "string"
  THEN Str((IF a.t = "nan" THEN <<"N", "a", "N">> ELSE NumberToString(a.n)) \o b.s)
  ELSE LET x == ToNumber(a)
           y == ToNumber(b)
       IN IF x.t = "nan" \/ y.t = "nan" THEN NaN ELSE Num(x.n + y.n)

Pad2(n) == IF n < 10 THEN <<"0">> \o NatToString(n) ELSE NatToString(n)

\* The date-only ISO string of a day, as the form sends a fee date
\* (toISOString().split('T')[0], the value of an <input type="date">).
IsoDate(day) ==
  LET c == CivilFromDays(day)
  IN NatToString(c.y) \o <<"-">> \o Pad2(c.m) \o <<"-">> \o Pad2(c.d)

\* new Date(v): a date-only ISO string is the UTC midnight of that date, with
\* a day of the month up to 31 carried into the following month; any other
\* string of the model, and undefined, give the invalid Date.
NewDate(v) ==
  CASE v.t = "undefined" -> InvalidDate
    [] v.t = "nan" -> InvalidDate
    [] v.t = "null" -> DateV(0)
    [] v.t = "number" -> DateV(v.n)
    [] v.t = "string" ->
         IF /\ Len(v.s) = 10
            /\ v.s[5] = "-"
            /\ v.s[8] = "-"
            /\ \A i \in {1, 2, 3, 4, 6, 7, 9, 10} : v.s[i] \in Digits
         THEN LET y == DigitsValue(SubSeq(v.s, 1, 4))
                  m == DigitsValue(SubSeq(v.s, 6, 7))
                  d == DigitsValue(SubSeq(v.s, 9, 10))
              IN IF m \in 1..12 /\ d \in 1..31
                 THEN DateV(MakeDay(y, m - 1, d))
                 ELSE InvalidDate
         ELSE InvalidDate

\* new Date(new Date(feeDate).setMonth(new Date(feeDate).getMonth() + months))
EndDateBug(feeDate, months) ==
  LET date == NewDate(feeDate)
  IN IF date.t # "date" \/ ToNumber(months).t = "nan" THEN InvalidDate
     ELSE DateV(date.d + 30 * ToNumber(months).n)

EndDate(feeDate, months) ==
  LET date == NewDate(feeDate)
      sum == JsAdd(GetMonthOf(NewDate(feeDate)), months)
  IN IF date.t # "date" THEN InvalidDate
     ELSE NewDate(SetMonth(date, ToNumber(sum)))

(***************************************************************************)
(* The request body, and the object the handler builds from it.            *)
(***************************************************************************)
\* medicalCondition of lines 212-215 and 294-297.
MedicalCondition(b) ==
  [hasMedicalCondition |-> JsOr(b.hasMedicalCondition, Bool(FALSE)),
   conditionDetails |->
     IF Truthy(b.hasMedicalCondition)
     THEN JsOr(b.medicalConditionDetails, Str(<<>>))
     ELSE Str(<<>>)]

\* The argument of new Client(...) in POST.
NewClientData(b) ==
  [name |-> b.name,
   contact |-> b.contact,
   aadhaar |-> b.aadhaar,
   height |-> [ft |-> b.heightFt, in |-> b.heightIn],
   weight |-> b.weight,
   goal |-> b.goal,
   medicalCondition |-> MedicalCondition(b),
   fees |-> [submitted |-> b.feesSubmitted, due |-> b.feesDue],
   pt |-> b.pt,
   membership |-> [months |-> b.months,
                   feeDate |-> NewDate(b.feeDate),
                   endDate |-> EndDate(b.feeDate, b.months)]]

\* updateData in PUT.
UpdateData(b) ==
  [name |-> b.name,
   contact |-> b.contact,
   aadhaar |-> b.aadhaar,
   height |-> [ft |-> b.heightFt, in |-> b.heightIn],
   weight |-> b.weight,
   goal |-> b.goal,
   medicalCondition |-> MedicalCondition(b),
   fees |-> [submitted |-> b.feesSubmitted, due |-> b.feesDue],
   pt |-> b.pt,
   membership |-> [months |-> b.months,
                   feeDate |-> NewDate(b.feeDate),
                   endDate |-> EndDate(b.feeDate, b.months)]]

(***************************************************************************)
(* Mongoose: casting by schema type.                                       *)
(***************************************************************************)
\* What a cast that fails leaves in place of the value.
CastErr == [t |-> "cast-error"]

\* SchemaString: the cast, then the trim setter where the path declares it.
CastString(v, trim) ==
  CASE v.t = "undefined" -> v
    [] v.t = "null" -> v
    [] v.t = "string" -> IF trim THEN Str(Trim(v.s)) ELSE v
    [] v.t = "number" -> Str(NumberToString(v.n))
    [] v.t = "boolean" ->
         Str(IF v.b THEN <<"t", "r", "u", "e">> ELSE <<"f", "a", "l", "s", "e">>)
    [] OTHER -> CastErr

\* SchemaNumber: '' is null, a string or boolean goes through Number(),
\* and NaN is refused.
CastNumber(v) ==
  CASE v.t = "undefined" -> v
    [] v.t = "null" -> v
    [] v.t = "number" -> v
    [] v.t = "boolean" -> Num(IF v.b THEN 1 ELSE 0)
    [] v.t = "string" ->
         IF v.s = <<>> THEN Null
         ELSE IF StringToNumber(v.s).t = "nan" THEN CastErr
         ELSE StringToNumber(v.s)
    [] OTHER -> CastErr

\* SchemaBoolean: convertToTrue and convertToFalse.
ConvertToTrue ==
  {Bool(TRUE), Str(<<"t", "r", "u", "e">>), Num(1), Str(<<"1">>), Str(<<"y", "e", "s">>)}

ConvertToFalse ==
  {Bool(FALSE), Str(<<"f", "a", "l", "s", "e">>), Num(0), Str(<<"0">>), Str(<<"n", "o">>)}

CastBoolean(v) ==
  IF v \in ConvertToTrue THEN Bool(TRUE)
  ELSE IF v \in ConvertToFalse THEN Bool(FALSE)
  ELSE IF v.t \in {"undefined", "null"} THEN v
  ELSE CastErr

\* SchemaDate, for the Date objects the handler passes.
CastDate(v) ==
  CASE v.t = "date" -> v
    [] v.t = "undefined" -> v
    [] v.t = "null" -> v
    [] OTHER -> CastErr

HexChars == Digits \cup {"a", "b", "c", "d", "e", "f"}

\* The hexadecimal string of the k-th ObjectId the store assigns.
ObjectIdString(k) == [i \in 1..24 |-> IF i = 24 THEN CHOOSE c \in Digits : DigitVal(c) = k ELSE "0"]

\* Casting an id to ObjectId: the 24 hexadecimal characters of one.
CastObjectId(v) ==
  IF v.t = "string" /\ Len(v.s) = 24 /\ \A i \in 1..24 : v.s[i] \in HexChars
  THEN v
  ELSE CastErr

(***************************************************************************)
(* clientSchema: the paths, their types, defaults and validators.          *)
(***************************************************************************)
GainWeight == <<"G", "a", "i", "n", " ", "W", "e", "i", "g", "h", "t">>
LoseWeight == <<"L", "o", "s", "e", " ", "W", "e", "i", "g", "h", "t">>
MaintainWeight ==
  <<"M", "a", "i", "n", "t", "a", "i", "n", " ", "W", "e", "i", "g", "h", "t">>
Powerlifting == <<"P", "o", "w", "e", "r", "l", "i", "f", "t", "i", "n", "g">>
Bodybuilding == <<"B", "o", "d", "y", "b", "u", "i", "l", "d", "i", "n", "g">>
GoalEnum == {GainWeight, LoseWeight, MaintainWeight, Powerlifting, Bodybuilding}

PtNone == <<"N", "o", "n", "e">>
PtStandard == <<"S", "t", "a", "n", "d", "a", "r", "d">>
PtAdvanced == <<"A", "d", "v", "a", "n", "c", "e", "d">>
PtEnum == {PtNone, PtStandard, PtAdvanced}

\* Every path cast by its schema type.
CastPaths(data) ==
  [name |-> CastString(data.name, TRUE),
   contact |-> CastString(data.contact, TRUE),
   aadhaar |-> CastString(data.aadhaar, TRUE),
   height |-> [ft |-> CastNumber(data.height.ft), in |-> CastNumber(data.height.in)],
   weight |-> CastNumber(data.weight),
   goal |-> CastString(data.goal, FALSE),
   medicalCondition |->
     [hasMedicalCondition |-> CastBoolean(data.medicalCondition.hasMedicalCondition),
      conditionDetails |-> CastString(data.medicalCondition.conditionDetails, TRUE)],
   fees |-> [submitted |-> CastNumber(data.fees.submitted),
             due |-> CastNumber(data.fees.due)],
   pt |-> CastString(data.pt, FALSE),
   membership |-> [months |-> CastNumber(data.membership.months),
                   feeDate |-> CastDate(data.membership.feeDate),
                   endDate |-> CastDate(data.membership.endDate)]]

\* The paths of a cast document whose cast failed.
CastErrors(doc) ==
  {p \in {"name", "contact", "aadhaar", "weight", "goal", "pt"} : doc[p] = CastErr}
    \cup {p \in {"height.ft"} : doc.height.ft = CastErr}
    \cup {p \in {"height.in"} : doc.height.in = CastErr}
    \cup {p \in {"medicalCondition.hasMedicalCondition"} :
            doc.medicalCondition.hasMedicalCondition = CastErr}
    \cup {p \in {"medicalCondition.conditionDetails"} :
            doc.medicalCondition.conditionDetails = CastErr}
    \cup {p \in {"fees.submitted"} : doc.fees.submitted = CastErr}
    \cup {p \in {"fees.due"} : doc.fees.due = CastErr}
    \cup {p \in {"membership.months"} : doc.membership.months = CastErr}
    \cup {p \in {"membership.feeDate"} : doc.membership.feeDate = CastErr}
    \cup {p \in {"membership.endDate"} : doc.membership.endDate = CastErr}

\* required: true, by type: a string must be non-empty, a number a number,
\* a date a Date.
RequiredStringUnchecked(v) == TRUE

RequiredString(v) == v.t = "string" /\ Len(v.s) > 0
RequiredNumber(v) == v.t = "number"
RequiredDate(v) == v.t = "date"

\* match: /^\d{10}$/ (null and '' are left to required).
ContactUnmatched(v) == TRUE

ContactMatches(v) ==
  IF v.t = "string" /\ Len(v.s) > 0 THEN MatchesDigits(v.s, 10) ELSE TRUE

\* validate: /^\d{12}$/.test(v), run for every value but undefined.
AadhaarValid(v) ==
  CASE v.t = "undefined" -> TRUE
    [] v.t = "string" -> MatchesDigits(v.s, 12)
    [] OTHER -> FALSE

\* enum: undefined passes, any other value must be listed.
EnumValid(v, values) ==
  CASE v.t = "undefined" -> TRUE
    [] v.t = "string" -> v.s \in values
    [] OTHER -> FALSE

\* The paths of a cast document (no cast failed) that a validator refuses.
ValidatorErrors(doc) ==
  {p \in {"name"} : ~RequiredString(doc.name)}
    \cup {p \in {"contact"} : ~RequiredString(doc.contact) \/ ~ContactMatches(doc.contact)}
    \cup {p \in {"aadhaar"} : ~RequiredString(doc.aadhaar) \/ ~AadhaarValid(doc.aadhaar)}
    \cup {p \in {"goal"} : ~RequiredString(doc.goal) \/ ~EnumValid(doc.goal, GoalEnum)}
    \cup {p \in {"pt"} : ~EnumValid(doc.pt, PtEnum)}
    \cup {p \in {"fees.submitted"} : ~RequiredNumber(doc.fees.submitted)}
    \cup {p \in {"membership.months"} : ~RequiredNumber(doc.membership.months)}
    \cup {p \in {"membership.feeDate"} : ~RequiredDate(doc.membership.feeDate)}

\* The defaults a new document takes for the paths left undefined.
WithDefaults(doc) ==
  [doc EXCEPT
     !.medicalCondition.hasMedicalCondition = IF @ = Undef THEN Bool(FALSE) ELSE @,
     !.medicalCondition.conditionDetails = IF @ = Undef THEN Str(<<>>) ELSE @,
     !.fees.due = IF @ = Undef THEN Num(0) ELSE @,
     !.pt = IF @ = Undef THEN Str(PtNone) ELSE @]

\* An update ($set) writes a path given as undefined as null.
Nulled(v) == IF v = Undef THEN Null ELSE v

WithNulls(doc) ==
  [name |-> Nulled(doc.name),
   contact |-> Nulled(doc.contact),
   aadhaar |-> Nulled(doc.aadhaar),
   height |-> [ft |-> Nulled(doc.height.ft), in |-> Nulled(doc.height.in)],
   weight |-> Nulled(doc.weight),
   goal |-> Nulled(doc.goal),
   medicalCondition |->
     [hasMedicalCondition |-> Nulled(doc.medicalCondition.hasMedicalCondition),
      conditionDetails |-> Nulled(doc.medicalCondition.conditionDetails)],
   fees |-> [submitted |-> Nulled(doc.fees.submitted), due |-> Nulled(doc.fees.due)],
   pt |-> Nulled(doc.pt),
   membership |-> [months |-> Nulled(doc.membership.months),
                   feeDate |-> Nulled(doc.membership.feeDate),
                   endDate |-> Nulled(doc.membership.endDate)]]

(***************************************************************************)
(* State.                                                                  *)
(***************************************************************************)
VARIABLES
  store,     \* the clients collection: _id (hex string) -> document
  nextId,    \* how many ObjectIds the store has assigned, plus one
  inflight,  \* per Replace handler: Idle, or the request it is serving
  res,       \* the response written last
  today,     \* the current UTC day
  cached,    \* global.mongoose: the connection cache {conn, promise}
  waiting,   \* the methods of the requests awaiting cached.promise, in order
  connects,  \* how many times mongoose.connect has been called
  call,      \* the page's fetchWithRetry call: where it is, what it has left
  page       \* the page of public/script.js: what it holds and shows

vars == <<store, nextId, inflight, res, today, cached, waiting, connects,
         call, page>>

\* What the handler's switch leaves alone.
connVars == <<cached, waiting, connects>>

Idle == [t |-> "idle"]
NoDoc == [t |-> "none"]

\* The day the clock shows first.
Today0 == DaysFromCivil(2024, 1, 31)

Handlers == 1..MaxInFlight

\* res.status(status).json(...): the status, the `message` and the `field`
\* of the body ("" when it has none; the message of a 409 with the word
\* field where the body has the field's name), and the document or
\* deletedClient of the body.
ResponseWithoutMessage(method, status, message, field, doc) ==
  [method |-> method, status |-> status, message |-> "", field |-> field,
   doc |-> doc]

Response(method, status, message, field, doc) ==
  [method |-> method, status |-> status, message |-> message, field |-> field,
   doc |-> doc]

\* The states of a promise, and the object mongoose.connect resolves to.
Pending == [t |-> "pending"]
Resolved == [t |-> "resolved"]
Rejected == [t |-> "rejected"]
Mongoose == [t |-> "mongoose"]

\* The page when DOMContentLoaded has run: no confirm dialog has been
\* opened, no client fetched or rendered, the search bar is empty; the
\* browser is in some time zone at some instant.
PageLoaded ==
  [dialogs |-> <<>>, clients |-> <<>>, search |-> <<>>, rendered |-> <<>>,
   zone |-> [offset |-> 330, changes |-> <<>>], now |-> 0,
   wire |-> <<>>, message |-> <<>>]

\* No call of fetchWithRetry has been made yet.
NoCall ==
  [at |-> "none", site |-> "", retries |-> 0, requests |-> 0, delay |-> 0,
   outcome |-> [t |-> "none"]]

\* cached = global.mongoose = { conn: null, promise: null }, before any call.
Cold ==
  /\ cached = [conn |-> Null, promise |-> Null]
  /\ waiting = <<>>
  /\ connects = 0

Init ==
  /\ store = <<>>
  /\ nextId = 1
  /\ inflight = [h \in Handlers |-> Idle]
  /\ res = Response("", 0, "", "", NoDoc)
  /\ today = Today0
  /\ Cold
  /\ call = NoCall
  /\ page = PageLoaded

(***************************************************************************)
(* The collection: its unique indexes and its atomic operations.           *)
(***************************************************************************)
\* The unique indexes (contact_1, aadhaar_1) that writing `doc` as document
\* `self` would violate.
NoDuplicateKeys(st, self, doc) == {}

DuplicateKeysWithSelf(st, self, doc) ==
  {f \in {"contact", "aadhaar"} : \E k \in DOMAIN st : st[k][f] = doc[f]}

DuplicateKeys(st, self, doc) ==
  {f \in {"contact", "aadhaar"} :
     \E k \in DOMAIN st : k # self /\ st[k][f] = doc[f]}

\* Client.findById(id).lean(): the document, or null.
FindById(st, id) == IF id \in DOMAIN st THEN st[id] ELSE Null

\* The collection without document id.
WithoutNothing(st, id) == st

WithoutEvery(st, id) == [k \in {} |-> st[k]]

Without(st, id) == [k \in DOMAIN st \ {id} |-> st[k]]

\* The collection with document id written.
With(st, id, doc) == [k \in DOMAIN st \cup {id} |-> IF k = id THEN doc ELSE st[k]]

\* The document as stored under _id.
Stored(id, doc) ==
  [_id |-> id,
   name |-> doc.name,
   contact |-> doc.contact,
   aadhaar |-> doc.aadhaar,
   height |-> doc.height,
   weight |-> doc.weight,
   goal |-> doc.goal,
   medicalCondition |-> doc.medicalCondition,
   fees |-> doc.fees,
   pt |-> doc.pt,
   membership |-> doc.membership]

(***************************************************************************)
(* The connection: dbConnect and the handler up to its switch.  A request  *)
(* that awaits the connection is held in `waiting`; when the attempt       *)
(* succeeds it goes on to the switch, where it is a request like any other *)
(* (it has not touched the store), and when the attempt fails it is        *)
(* answered 503.  The continuations of a rejected promise run as           *)
(* microtasks, before any other request is taken up: while any of them is  *)
(* left (Draining) nothing else of the handler runs.                       *)
(***************************************************************************)
\* The methods of the requests explored: the four the switch names, and two
\* it does not.  OPTIONS is handled before the connection.
Methods == {"GET", "POST", "PUT", "DELETE", "PATCH", "HEAD"}

\* cached.conn.readyState: cached.conn is what the promise resolves to, the
\* mongoose module (line 39), which has no readyState (the connection,
\* mongoose.connection, has).
ReadyState(conn) == Undef

\* if (cached.conn && cached.conn.readyState === 1)
UsesExisting(c) == Truthy(c.conn) /\ ReadyState(c.conn) = Num(1)

\* if (!cached.promise)
StartsAttemptAlways(c) == TRUE

StartsAttempt(c) == ~Truthy(c.promise)

\* cached.conn = null; cached.promise = null
ResetNothing(c) == c

Reset(c) == [conn |-> Null, promise |-> Null]

\* The continuations of a rejected attempt are still to run.
Draining == waiting # <<>> /\ cached.promise # Pending

\* dbConnect has returned to the request now served.
Connected == cached.promise = Resolved /\ waiting = <<>>

\* The 503 of the handler's catch around dbConnect.
ConnectionFailureUncaught(m) ==
  Response(m, 500, "FUNCTION_INVOCATION_FAILED", "", NoDoc)

ConnectionFailure(m) ==
  Response(m, 503, "Database connection failed. Please try again later.", "", NoDoc)

\* The 405 of the default case, with allowedMethods.
MethodNotFound(m) == Response(m, 404, "Not Found", "", NoDoc)

MethodNotAllowed(m) ==
  Response(m, 405, "Method Not Allowed", "",
           [t |-> "allowed", methods |-> <<"GET", "POST", "PUT", "DELETE">>])

\* if (req.method === 'OPTIONS'): 200 with no body, before dbConnect.
Options ==
  /\ ~Draining
  /\ res' = Response("OPTIONS", 200, "", "", NoDoc)
  /\ UNCHANGED <<store, nextId, inflight, today, connVars, call>>

\* A request of method m calls dbConnect, up to its await: it starts an
\* attempt when the cache holds no promise, and then awaits the promise of
\* the cache; a promise already resolved hands it the connection at once.
DbConnect(m) ==
  LET starts == ~UsesExisting(cached) /\ StartsAttempt(cached)
      promise == IF starts THEN Pending ELSE cached.promise
  IN /\ ~Draining
     /\ UNCHANGED <<store, nextId, inflight, res, today, call>>
     /\ IF UsesExisting(cached)
        THEN UNCHANGED connVars
        ELSE /\ starts => connects < MaxConnects
             /\ connects' = IF starts THEN connects + 1 ELSE connects
             /\ IF promise = Resolved
                THEN /\ cached' = [conn |-> Mongoose, promise |-> promise]
                     /\ UNCHANGED waiting
                ELSE /\ Len(waiting) < MaxWaiting
                     /\ cached' = [cached EXCEPT !.promise = promise]
                     /\ waiting' = Append(waiting, m)

\* mongoose.connect resolves: every request awaiting it has its connection
\* (cached.conn = await cached.promise) and goes on to the switch.
ConnectResolves ==
  /\ cached.promise = Pending
  /\ cached' = [conn |-> Mongoose, promise |-> Resolved]
  /\ waiting' = <<>>
  /\ UNCHANGED <<store, nextId, inflight, res, today, connects, call>>

\* mongoose.connect rejects: the .catch of line 41 resets the cache and
\* rethrows to the requests awaiting.
ConnectRejects ==
  /\ cached.promise = Pending
  /\ cached' = Reset([cached EXCEPT !.promise = Rejected])
  /\ UNCHANGED <<store, nextId, inflight, res, today, waiting, connects, call>>

\* The catch of dbConnect (lines 52-57) and the catch of the handler around
\* it (160-167), for the request that has awaited longest.
Unavailable ==
  /\ Draining
  /\ cached' = Reset(cached)
  /\ res' = ConnectionFailure(Head(waiting))
  /\ waiting' = Tail(waiting)
  /\ UNCHANGED <<store, nextId, inflight, today, connects, call>>

\* default: of the switch.
NotAllowed(m) ==
  /\ Connected
  /\ res' = MethodNotAllowed(m)
  /\ UNCHANGED <<store, nextId, inflight, today, connVars, call>>

(***************************************************************************)
(* The handler, one action per request (Replace: one per store call).      *)
(***************************************************************************)
\* case 'GET'
Get ==
  /\ Connected
  /\ res' = Response("GET", 200, "", "", [t |-> "list", docs |-> {store[k] : k \in DOMAIN store}])
  /\ UNCHANGED <<store, nextId, inflight, today, connVars, call>>

\* The required-field test of POST.
MissingRequired(b) == ~Truthy(b.name) \/ ~Truthy(b.contact) \/ ~Truthy(b.aadhaar)

\* What newClient.save() meets: "invalid" (a ValidationError), "duplicate"
\* (E11000) or "ok".
SaveOutcomeUnindexed(st, doc) ==
  IF CastErrors(doc) # {} \/ ValidatorErrors(doc) # {} THEN "invalid" ELSE "ok"

SaveOutcome(st, doc) ==
  IF CastErrors(doc) # {} \/ ValidatorErrors(doc) # {} THEN "invalid"
  ELSE IF DuplicateKeys(st, NoDoc, doc) # {} THEN "duplicate"
  ELSE "ok"

\* case 'POST'
Post(b) ==
  LET doc == WithDefaults(CastPaths(NewClientData(b)))
      outcome == SaveOutcome(store, doc)
      id == ObjectIdString(nextId)
  IN /\ Connected
     /\ UNCHANGED <<inflight, today, connVars, call>>
     /\ IF MissingRequired(b)
        THEN /\ res' = Response("POST", 400,
                                  "Missing required fields: name, contact, or aadhaar",
                                  "", NoDoc)
             /\ UNCHANGED <<store, nextId>>
        ELSE CASE outcome = "invalid" ->
                    /\ res' = Response("POST", 400, "Validation failed", "", NoDoc)
                    /\ UNCHANGED <<store, nextId>>
               [] outcome = "duplicate" ->
                    /\ \E f \in DuplicateKeys(store, NoDoc, doc) :
                         res' = Response("POST", 409,
                                         "A client with this field already exists.",
                                         f, NoDoc)
                    /\ UNCHANGED <<store, nextId>>
               [] outcome = "ok" ->
                    /\ nextId <= MaxId
                    /\ store' = With(store, id, Stored(id, doc))
                    /\ nextId' = nextId + 1
                    /\ res' = Response("POST", 201, "", "", Stored(id, doc))

\* id === undefined, and the id test of PUT and DELETE: !clientId, !id.
IdUndefined(id) == id = Undef

NoId(id) == ~Truthy(id)

\* case 'PUT', to the existence check: req.query.id || req.body.id, the id
\* test and Client.findById.
PutFind(h, queryId, bodyId, b) ==
  LET clientId == JsOr(queryId, bodyId)
  IN /\ Connected
     /\ inflight[h] = Idle
     /\ UNCHANGED <<store, nextId, today, connVars, call>>
     /\ IF NoId(clientId)
        THEN /\ res' = Response("PUT", 400, "Client ID is required for update.", "", NoDoc)
             /\ UNCHANGED inflight
        ELSE IF CastObjectId(clientId) = CastErr
        THEN /\ res' = Response("PUT", 500, "Error updating client.", "", NoDoc)
             /\ UNCHANGED inflight
        ELSE IF FindById(store, clientId.s) = Null
        THEN /\ res' = Response("PUT", 404, "Client not found.", "", NoDoc)
             /\ UNCHANGED inflight
        ELSE /\ inflight' = [inflight EXCEPT ![h] = [id |-> clientId.s, body |-> b]]
             /\ UNCHANGED res

\* What Client.findByIdAndUpdate(clientId, updateData, {new, runValidators})
\* meets: "cast" (a CastError thrown by the cast of the update), "invalid"
\* (a ValidationError of the update validators), "absent" (no document:
\* null is returned), "duplicate" (E11000) or "ok".
UpdateOutcome(st, id, doc) ==
  IF CastErrors(doc) # {} THEN "cast"
  ELSE IF ValidatorErrors(doc) # {} THEN "invalid"
  ELSE IF id \notin DOMAIN st THEN "absent"
  ELSE IF DuplicateKeys(st, id, doc) # {} THEN "duplicate"
  ELSE "ok"

\* The document a $set of every path of updateData leaves: each path as
\* the update gives it (undefined written as null), under the same _id.
ApplySetOmitUndefined(old, doc) ==
  [_id |-> old._id,
   name |-> IF doc.name = Undef THEN old.name ELSE doc.name,
   contact |-> IF doc.contact = Undef THEN old.contact ELSE doc.contact,
   aadhaar |-> IF doc.aadhaar = Undef THEN old.aadhaar ELSE doc.aadhaar,
   height |-> [ft |-> IF doc.height.ft = Undef THEN old.height.ft ELSE doc.height.ft,
               in |-> IF doc.height.in = Undef THEN old.height.in ELSE doc.height.in],
   weight |-> IF doc.weight = Undef THEN old.weight ELSE doc.weight,
   goal |-> IF doc.goal = Undef THEN old.goal ELSE doc.goal,
   medicalCondition |-> doc.medicalCondition,
   fees |-> [submitted |-> IF doc.fees.submitted = Undef
                           THEN old.fees.submitted ELSE doc.fees.submitted,
             due |-> IF doc.fees.due = Undef THEN old.fees.due ELSE doc.fees.due],
   pt |-> IF doc.pt = Undef THEN old.pt ELSE doc.pt,
   membership |-> doc.membership]

ApplySet(old, doc) == Stored(old._id, WithNulls(doc))

\* case 'PUT', from the update on.
PutUpdate(h) ==
  LET id == inflight[h].id
      doc == CastPaths(UpdateData(inflight[h].body))
      outcome == UpdateOutcome(store, id, doc)
  IN /\ inflight[h] # Idle
     /\ inflight' = [inflight EXCEPT ![h] = Idle]
     /\ UNCHANGED <<nextId, today, connVars, call>>
     /\ CASE outcome = "cast" ->
               /\ res' = Response("PUT", 500, "Error updating client.", "", NoDoc)
               /\ UNCHANGED store
          [] outcome = "invalid" ->
               /\ res' = Response("PUT", 400, "Validation failed", "", NoDoc)
               /\ UNCHANGED store
          [] outcome = "absent" ->
               /\ res' = Response("PUT", 200, "", "", Null)
               /\ UNCHANGED store
          [] outcome = "duplicate" ->
               /\ \E f \in DuplicateKeys(store, id, doc) :
                    res' = Response("PUT", 409,
                                    "Another client with this field already exists.",
                                    f, NoDoc)
               /\ UNCHANGED store
          [] outcome = "ok" ->
               /\ store' = With(store, id, ApplySet(store[id], doc))
               /\ res' = Response("PUT", 200, "", "", ApplySet(store[id], doc))

\* case 'DELETE': the id test and Client.findByIdAndDelete.
Delete(bodyId) ==
  /\ Connected
  /\ UNCHANGED <<nextId, inflight, today, connVars, call>>
  /\ IF NoId(bodyId)
     THEN /\ res' = Response("DELETE", 400, "Client ID is required for deletion.", "", NoDoc)
          /\ UNCHANGED store
     ELSE IF CastObjectId(bodyId) = CastErr
     THEN /\ res' = Response("DELETE", 500, "Error deleting client.", "", NoDoc)
          /\ UNCHANGED store
     ELSE IF bodyId.s \notin DOMAIN store
     THEN /\ res' = Response("DELETE", 404, "Client not found.", "", NoDoc)
          /\ UNCHANGED store
     ELSE /\ store' = Without(store, bodyId.s)
          /\ res' = Response("DELETE", 200, "Client deleted successfully.", "",
                             [id |-> store[bodyId.s]._id, name |-> store[bodyId.s].name])

\* The days the clock of the date specification can show first: ends of
\* months of every length, in and out of a leap year, and a year's end.
StartDays ==
  {DaysFromCivil(2024, 1, 31), DaysFromCivil(2023, 1, 31), DaysFromCivil(2024, 2, 29),
   DaysFromCivil(2024, 3, 30), DaysFromCivil(2023, 12, 31)}

\* Midnight passes, up to MaxTicks times after a first day.
Tick ==
  /\ \E s \in StartDays : s <= today /\ today < s + MaxTicks
  /\ today' = today + 1
  /\ UNCHANGED <<store, nextId, inflight, res, connVars, call>>

(***************************************************************************)
(* The page (public/script.js): fetchWithRetry, the one function through   *)
(* which it calls the API.                                                 *)
(***************************************************************************)
\* RETRY_CONFIG
maxRetries == 3
retryDelay == 1000
timeoutMs == 20000

\* s.includes(sub)
Includes(s, sub) ==
  \E i \in 0..(Len(s) - Len(sub)) : SubSeq(s, i + 1, i + Len(sub)) = sub

\* The three substrings the catch looks for in error.message.
FailedToFetch ==
  <<"F", "a", "i", "l", "e", "d", " ", "t", "o", " ", "f", "e", "t", "c",
    "h">>
TimeoutWord ==
  <<"t", "i", "m", "e", "o", "u", "t">>
NetworkErrorWord ==
  <<"N", "e", "t", "w", "o", "r", "k", "E", "r", "r", "o", "r">>

\* The parts of `HTTP ${response.status}: ${response.statusText}`.
HttpPrefix ==
  <<"H", "T", "T", "P", " ">>
HttpSeparator ==
  <<":", " ">>

\* The reason phrase of a status, which response.statusText holds over
\* HTTP/1.1; over HTTP/2 and later it is the empty string.
ReasonPhrase(status) ==
  CASE status = 200 ->
      <<"O", "K">>
    [] status = 201 ->
      <<"C", "r", "e", "a", "t", "e", "d">>
    [] status = 400 ->
      <<"B", "a", "d", " ", "R", "e", "q", "u", "e", "s", "t">>
    [] status = 404 ->
      <<"N", "o", "t", " ", "F", "o", "u", "n", "d">>
    [] status = 405 ->
      <<"M", "e", "t", "h", "o", "d", " ", "N", "o", "t", " ", "A", "l", "l",
    "o", "w", "e", "d">>
    [] status = 409 ->
      <<"C", "o", "n", "f", "l", "i", "c", "t">>
    [] status = 500 ->
      <<"I", "n", "t", "e", "r", "n", "a", "l", " ", "S", "e", "r", "v", "e",
    "r", " ", "E", "r", "r", "o", "r">>
    [] status = 503 ->
      <<"S", "e", "r", "v", "i", "c", "e", " ", "U", "n", "a", "v", "a", "i",
    "l", "a", "b", "l", "e">>
    [] status = 504 ->
      <<"G", "a", "t", "e", "w", "a", "y", " ", "T", "i", "m", "e", "o", "u",
    "t">>

\* The statuses the handler writes (200, 201, 400, 404, 405, 409, 500, 503)
\* and the one the platform writes when the function does not answer in time.
Statuses == {200, 201, 400, 404, 405, 409, 500, 503, 504}

StatusTexts(status) == {ReasonPhrase(status), <<>>}

\* The call sites of fetchWithRetry, by the method of their options.
CallSites == {"GET", "POST", "PUT", "DELETE"}

\* An Error: its name and its message.
Error(name, message) == [name |-> name, message |-> message]

\* What fetch rejects with: the DOMException of controller.abort(), and the
\* TypeError of a network failure, whose message is the browser's.
FetchErrors ==
  {Error("AbortError",
     <<"T", "h", "e", " ", "u", "s", "e", "r", " ", "a", "b", "o", "r", "t",
    "e", "d", " ", "a", " ", "r", "e", "q", "u", "e", "s", "t", ".">>),
   Error("TypeError",
     <<"F", "a", "i", "l", "e", "d", " ", "t", "o", " ", "f", "e", "t", "c",
    "h">>),
   Error("TypeError",
     <<"N", "e", "t", "w", "o", "r", "k", "E", "r", "r", "o", "r", " ", "w",
    "h", "e", "n", " ", "a", "t", "t", "e", "m", "p", "t", "i", "n", "g",
    " ", "t", "o", " ", "f", "e", "t", "c", "h", " ", "r", "e", "s", "o",
    "u", "r", "c", "e", ".">>),
   Error("TypeError",
     <<"L", "o", "a", "d", " ", "f", "a", "i", "l", "e", "d">>)}

\* new Error(`HTTP ${response.status}: ${response.statusText}`)
HttpError(status, text) ==
  Error("Error", HttpPrefix \o NatToString(status) \o HttpSeparator \o text)

\* response.ok
Ok(status) == status >= 200 /\ status <= 299

\* response.status >= 400, and response.status >= 500: the test of line 58.
ClientOrServerError(status) == status >= 400
ServerError(status) == status >= 500

\* The test of the catch block on the error it caught.
Retryable(error) ==
  \/ error.name = "AbortError"
  \/ Includes(error.message, FailedToFetch)
  \/ Includes(error.message, TimeoutWord)
  \/ Includes(error.message, NetworkErrorWord)

\* retries, and retries - 1: the third argument of the recursive call.
RetriesKept(retries) == retries
RetriesLeft(retries) == retries - 1

\* What fetch settled with: a response, or an error.
ResponseOutcome(status, text) ==
  [t |-> "response", status |-> status, statusText |-> text]
ErrorOutcome(error) == [t |-> "error", error |-> error]

\* fetchWithRetry(url, options): the page calls it with the default retries
\* at every call site, once the call before has returned or thrown.
CallStart(site) ==
  /\ call.at \in {"none", "returned", "threw"}
  /\ call' = [at |-> "fetching", site |-> site, retries |-> maxRetries,
              requests |-> 1, delay |-> 0, outcome |-> [t |-> "none"]]
  /\ UNCHANGED <<store, nextId, inflight, res, today, connVars>>

\* The catch block, on `error` while fetch has settled with `outcome`: wait
\* and call again, or throw to the caller.
Caught(error, outcome) ==
  IF call.retries > 0 /\ Retryable(error)
  THEN [call EXCEPT !.at = "delay", !.outcome = outcome,
                    !.delay = retryDelay * (maxRetries - call.retries + 1)]
  ELSE [call EXCEPT !.at = "threw", !.outcome = ErrorOutcome(error)]

\* await fetch(...) resolves with a response.
FetchResponds(status, text) ==
  /\ call.at = "fetching"
  /\ call' =
       IF Ok(status)
       THEN [call EXCEPT !.at = "returned",
                         !.outcome = ResponseOutcome(status, text)]
       ELSE IF ServerError(status) /\ call.retries > 0
       THEN [call EXCEPT !.at = "delay", !.delay = retryDelay,
                         !.outcome = ResponseOutcome(status, text)]
       ELSE Caught(HttpError(status, text), ResponseOutcome(status, text))
  /\ UNCHANGED <<store, nextId, inflight, res, today, connVars>>

\* await fetch(...) rejects: the network failed, or the timer of timeoutMs
\* aborted the request.
FetchFails(error) ==
  /\ call.at = "fetching"
  /\ call' = Caught(error, ErrorOutcome(error))
  /\ UNCHANGED <<store, nextId, inflight, res, today, connVars>>

\* The timer of the retry delay fires: return fetchWithRetry(url, options,
\* retries - 1), which issues the next request.
DelayEnds ==
  /\ call.at = "delay"
  /\ call.requests < MaxRequests
  /\ call' = [call EXCEPT !.at = "fetching", !.delay = 0,
                          !.retries = RetriesLeft(call.retries),
                          !.requests = call.requests + 1]
  /\ UNCHANGED <<store, nextId, inflight, res, today, connVars>>

(***************************************************************************)
(* The page: handleDelete and the confirm dialog (window.confirm).         *)
(***************************************************************************)
\* resolve(result) of the dialog's promise keeping the last result, and as a
\* promise takes it: a promise settles once, a later resolve does nothing.
SettleLast(settled, result) == result

Settle(settled, result) == IF settled = "pending" THEN result ELSE settled

\* handleDelete(id) up to its await: window.confirm appends the modal, adds
\* the click listeners of its buttons and of its backdrop and the keydown
\* listener of the document, and returns the promise.  `first` is what the
\* user did first with the dialog, `issued` whether handleDelete has sent
\* its DELETE request.
ClickDeleteButton(id) ==
  /\ Len(page.dialogs) < MaxDialogs
  /\ page' = [page EXCEPT !.dialogs =
       Append(@, [id |-> id, settled |-> "pending", modal |-> TRUE,
                  escape |-> TRUE, first |-> "none", resumed |-> FALSE,
                  issued |-> FALSE])]
  /\ UNCHANGED <<store, nextId, inflight, res, today, connVars, call>>

\* handleResponse(result) of dialog d, after the user's `act`; the promise
\* is "pending", or settled with "true" or "false".
HandleResponse(d, act, result) ==
  [d EXCEPT !.settled = Settle(d.settled, result),
            !.first = IF d.first = "none" THEN act ELSE d.first]

\* A click on the Delete, the Cancel button or the backdrop of dialog n,
\* while its modal is in the document.
ClickInDialog(n, act) ==
  /\ n \in DOMAIN page.dialogs
  /\ page.dialogs[n].modal
  /\ page' = [page EXCEPT !.dialogs[n] = 
       HandleResponse(@, act, IF act = "yes" THEN "true" ELSE "false")]
  /\ UNCHANGED <<store, nextId, inflight, res, today, connVars, call>>

\* The Escape key: every keydown listener still on the document removes
\* itself and calls its handleResponse(false).
PressEscape ==
  /\ \E n \in DOMAIN page.dialogs : page.dialogs[n].escape
  /\ page' = [page EXCEPT !.dialogs =
       [n \in DOMAIN @ |->
          IF @[n].escape
          THEN [HandleResponse(@[n], "escape", "false") EXCEPT !.escape = FALSE]
          ELSE @[n]]]
  /\ UNCHANGED <<store, nextId, inflight, res, today, connVars, call>>

\* The timer of handleResponse fires: modal.remove().
ModalRemoved(n) ==
  /\ n \in DOMAIN page.dialogs
  /\ page.dialogs[n].modal
  /\ page.dialogs[n].settled # "pending"
  /\ page' = [page EXCEPT !.dialogs[n].modal = FALSE]
  /\ UNCHANGED <<store, nextId, inflight, res, today, connVars, call>>

\* handleDelete goes on from its await with the value of the promise:
\* it returns when the value is false, and sends the DELETE request when
\* it is true.
DeleteResumes(n) ==
  /\ n \in DOMAIN page.dialogs
  /\ page.dialogs[n].settled # "pending"
  /\ ~page.dialogs[n].resumed
  /\ page' = [page EXCEPT !.dialogs[n].resumed = TRUE,
                          !.dialogs[n].issued = (page.dialogs[n].settled = "true")]
  /\ UNCHANGED <<store, nextId, inflight, res, today, connVars, call>>

(***************************************************************************)
(***************************************************************************)
(* The page: handleFormSubmit for a new client, the requests of its       *)
(* fetchWithRetry as the API receives them, and the message it shows.      *)
(***************************************************************************)
\* s.startsWith(p)
StartsWith(s, p) == Len(s) >= Len(p) /\ SubSeq(s, 1, Len(p)) = p

\* The substrings and the prefix the catch of handleFormSubmit looks for.
AlreadyExistsWord ==
  <<"a", "l", "r", "e", "a", "d", "y", " ", "e", "x", "i", "s", "t", "s">>
ValidationWord ==
  <<"v", "a", "l", "i", "d", "a", "t", "i", "o", "n">>
Http5Prefix ==
  <<"H", "T", "T", "P", " ", "5">>

\* The texts of showMessage.
SavePrefix ==
  <<"F", "a", "i", "l", "e", "d", " ", "t", "o", " ", "s", "a", "v", "e",
    " ", "c", "l", "i", "e", "n", "t", ".", " ">>
TimedOutText ==
  <<"T", "h", "e", " ", "r", "e", "q", "u", "e", "s", "t", " ", "t", "i",
    "m", "e", "d", " ", "o", "u", "t", ".", " ", "P", "l", "e", "a", "s",
    "e", " ", "t", "r", "y", " ", "a", "g", "a", "i", "n", ".">>
NetworkText ==
  <<"N", "e", "t", "w", "o", "r", "k", " ", "c", "o", "n", "n", "e", "c",
    "t", "i", "o", "n", " ", "p", "r", "o", "b", "l", "e", "m", ".", " ",
    "P", "l", "e", "a", "s", "e", " ", "c", "h", "e", "c", "k", " ", "y",
    "o", "u", "r", " ", "i", "n", "t", "e", "r", "n", "e", "t", " ", "c",
    "o", "n", "n", "e", "c", "t", "i", "o", "n", ".">>
DuplicateText ==
  <<"A", " ", "c", "l", "i", "e", "n", "t", " ", "w", "i", "t", "h", " ",
    "t", "h", "i", "s", " ", "c", "o", "n", "t", "a", "c", "t", " ", "n",
    "u", "m", "b", "e", "r", " ", "o", "r", " ", "A", "a", "d", "h", "a",
    "a", "r", " ", "a", "l", "r", "e", "a", "d", "y", " ", "e", "x", "i",
    "s", "t", "s", ".">>
InputDataText ==
  <<"P", "l", "e", "a", "s", "e", " ", "c", "h", "e", "c", "k", " ", "y",
    "o", "u", "r", " ", "i", "n", "p", "u", "t", " ", "d", "a", "t", "a",
    " ", "a", "n", "d", " ", "t", "r", "y", " ", "a", "g", "a", "i", "n",
    ".">>
UnavailableText ==
  <<"S", "e", "r", "v", "e", "r", " ", "i", "s", " ", "t", "e", "m", "p",
    "o", "r", "a", "r", "i", "l", "y", " ", "u", "n", "a", "v", "a", "i",
    "l", "a", "b", "l", "e", ".", " ", "P", "l", "e", "a", "s", "e", " ",
    "t", "r", "y", " ", "a", "g", "a", "i", "n", " ", "i", "n", " ", "a",
    " ", "m", "o", "m", "e", "n", "t", ".">>
UnknownText ==
  <<"U", "n", "k", "n", "o", "w", "n", " ", "e", "r", "r", "o", "r", " ",
    "o", "c", "c", "u", "r", "r", "e", "d", ".">>
SavedText ==
  <<"C", "l", "i", "e", "n", "t", " ", "s", "a", "v", "e", "d", " ", "s",
    "u", "c", "c", "e", "s", "s", "f", "u", "l", "l", "y", "!">>

\* The catch of handleFormSubmit: the message for the error it caught.
ErrorMessage(error) ==
  SavePrefix \o
    (IF Includes(error.message, TimeoutWord) \/ error.name = "AbortError"
     THEN TimedOutText
     ELSE IF Includes(error.message, FailedToFetch)
               \/ Includes(error.message, NetworkErrorWord)
     THEN NetworkText
     ELSE IF Includes(error.message, AlreadyExistsWord) THEN DuplicateText
     ELSE IF Includes(error.message, ValidationWord) THEN InputDataText
     ELSE IF StartsWith(error.message, Http5Prefix) THEN UnavailableText
     ELSE IF error.message # <<>> THEN error.message
     ELSE UnknownText)

\* What handleFormSubmit shows once the call is in state c: the message of
\* the catch when fetchWithRetry threw, the success message when it
\* returned, and nothing new while it is still trying.
Shown(c) ==
  IF c.at = "threw" THEN ErrorMessage(c.outcome.error)
  ELSE IF c.at = "returned" THEN SavedText
  ELSE page.message

\* A request on its way to the API, and one the API has answered.
Sent(b) == [at |-> "sent", status |-> 0, body |-> b]
Answered(request, status) == [request EXCEPT !.at = "answered", !.status = status]

\* The submit event of the form with no client id: the form has passed the
\* checks of the page, and fetchWithRetry sends the POST.
SubmitForm(b) ==
  /\ CallStart("POST")
  /\ page' = [page EXCEPT !.wire = <<Sent(b)>>, !.message = <<>>]

\* The API handles request i of the submission: case 'POST'.
ServerPost(i) ==
  /\ i \in DOMAIN page.wire
  /\ page.wire[i].at = "sent"
  /\ Post(page.wire[i].body)
  /\ page' = [page EXCEPT !.wire[i] = Answered(@, res'.status)]

\* The response of the API to the last request reaches fetch.
ResponseArrives ==
  /\ call.site = "POST"
  /\ page.wire # <<>>
  /\ page.wire[Len(page.wire)].at = "answered"
  /\ \E text \in StatusTexts(page.wire[Len(page.wire)].status) :
       FetchResponds(page.wire[Len(page.wire)].status, text)
  /\ page' = [page EXCEPT !.message = Shown(call')]

\* The platform answers for a function that did not answer in time.
GatewayTimeout(text) ==
  /\ call.site = "POST"
  /\ FetchResponds(504, text)
  /\ page' = [page EXCEPT !.message = Shown(call')]

\* fetch rejects: the request or its response was lost, or the timer of
\* timeoutMs aborted the request; what the API does with it is not undone.
RequestFails(error) ==
  /\ call.site = "POST"
  /\ FetchFails(error)
  /\ page' = [page EXCEPT !.message = Shown(call')]

\* The retry delay ends: the same request is sent again.
Resend ==
  /\ call.site = "POST"
  /\ DelayEnds
  /\ page' = [page EXCEPT !.wire = Append(@, Sent(@[1].body))]


(* The page: the browser's clock and time zone, calculateDaysRemaining and *)
(* renderClients.  An instant is a number of minutes since the epoch.      *)
(***************************************************************************)
MinutesPerDay == 1440

\* The instant of hour h, minute m (UTC) of a UTC day.
Instant(day, h, m) == day * MinutesPerDay + h * 60 + m

\* A time zone: its offset from UTC in minutes, and the instants at which the
\* offset changes, in order, each with the offset from then on.
Kolkata == [offset |-> 330, changes |-> <<>>]

London ==
  [offset |-> 0,
   changes |-> <<[at |-> Instant(DaysFromCivil(2024, 3, 31), 1, 0), offset |-> 60],
                 [at |-> Instant(DaysFromCivil(2024, 10, 27), 1, 0), offset |-> 0]>>]

NewYork ==
  [offset |-> 0 - 300,
   changes |-> <<[at |-> Instant(DaysFromCivil(2024, 3, 10), 7, 0), offset |-> 0 - 240],
                 [at |-> Instant(DaysFromCivil(2024, 11, 3), 6, 0), offset |-> 0 - 300]>>]

\* The offset of zone z at instant t.
OffsetAt(z, t) ==
  LET past == {i \in DOMAIN z.changes : z.changes[i].at <= t}
  IN IF past = {} THEN z.offset
     ELSE z.changes[CHOOSE i \in past : \A j \in past : j <= i].offset

Offsets(z) == {z.offset} \cup {z.changes[i].offset : i \in DOMAIN z.changes}

\* The local day number of instant t in zone z.
LocalDay(z, t) == (t + OffsetAt(z, t)) \div MinutesPerDay

\* date.setHours(0, 0, 0, 0): the instant at which the local day of t began
\* (no zone of the model skips or repeats its midnight).
SetHoursZero(z, t) ==
  LET local == LocalDay(z, t) * MinutesPerDay
  IN CHOOSE u \in {local - o : o \in Offsets(z)} : u + OffsetAt(z, u) = local

\* Math.ceil(a / b) for b > 0 (-0 is 0).
CeilDiv(a, b) == 0 - ((0 - a) \div b)

\* date.toISOString() of a UTC midnight, as the JSON of a record carries a
\* date, and new Date(string) of such a string: the instant.
MidnightSuffix ==
  <<"T", "0", "0", ":", "0", "0", ":", "0", "0", ".", "0", "0", "0", "Z">>

ToISOString(date) == IsoDate(date.d) \o MidnightSuffix

ParseInstant(s) ==
  IF Len(s) = 24 /\ SubSeq(s, 11, 24) = MidnightSuffix
        /\ NewDate(Str(SubSeq(s, 1, 10))) # InvalidDate
  THEN Num(NewDate(Str(SubSeq(s, 1, 10))).d * MinutesPerDay)
  ELSE NaN

\* calculateDaysRemaining(endDateStr), in zone z at instant now.
CalculateDaysRemaining(endDateStr, z, now) ==
  LET endDate == ParseInstant(endDateStr)
  IN IF endDate = NaN THEN NaN
     ELSE Num(CeilDiv(SetHoursZero(z, endDate.n) - SetHoursZero(z, now),
                      MinutesPerDay))

\* String.prototype.toLowerCase, on the letters of the model.
UpperCase ==
  <<"A", "B", "C", "D", "E", "F", "G", "H", "I", "J", "K", "L", "M", "N",
    "O", "P", "Q", "R", "S", "T", "U", "V", "W", "X", "Y", "Z">>

LowerCase ==
  <<"a", "b", "c", "d", "e", "f", "g", "h", "i", "j", "k", "l", "m", "n",
    "o", "p", "q", "r", "s", "t", "u", "v", "w", "x", "y", "z">>

ToLowerCase(s) ==
  [i \in DOMAIN s |->
     IF \E k \in DOMAIN UpperCase : UpperCase[k] = s[i]
     THEN LowerCase[CHOOSE k \in DOMAIN UpperCase : UpperCase[k] = s[i]]
     ELSE s[i]]

\* clients.filter(client => client.name.toLowerCase().includes(searchTerm))
RECURSIVE Filter(_, _)
Filter(clients, searchTerm) ==
  IF clients = <<>> THEN <<>>
  ELSE LET rest == Filter(Tail(clients), searchTerm)
       IN IF Includes(ToLowerCase(Head(clients).name), searchTerm)
          THEN <<Head(clients)>> \o rest
          ELSE rest

\* daysA - daysB of the sort's comparator.
Compare(a, b, z, now) ==
  CalculateDaysRemaining(a.membership.endDate, z, now).n
    - CalculateDaysRemaining(b.membership.endDate, z, now).n

\* Array.prototype.sort with that comparator: the sort is stable, so each
\* element goes after the sorted ones it does not precede.
InsertFirst(x, sorted, z, now) == <<x>> \o sorted

RECURSIVE Insert(_, _, _, _)
Insert(x, sorted, z, now) ==
  IF sorted = <<>> THEN <<x>>
  ELSE IF Compare(x, Head(sorted), z, now) < 0 THEN <<x>> \o sorted
  ELSE <<Head(sorted)>> \o Insert(x, Tail(sorted), z, now)

RECURSIVE Sort(_, _, _)
Sort(clients, z, now) ==
  IF clients = <<>> THEN <<>>
  ELSE Insert(clients[Len(clients)], Sort(SubSeq(clients, 1, Len(clients) - 1), z, now),
              z, now)

\* What renderClients appends for a client: the record, its daysRemaining
\* and whether its badge has the class overdue.
Item(client, z, now) ==
  LET daysRemaining == CalculateDaysRemaining(client.membership.endDate, z, now)
  IN [client |-> client, daysRemaining |-> daysRemaining.n,
      isOverdue |-> daysRemaining.n < 0]

\* renderClients(): the list is emptied, the clients whose name has the
\* search term are sorted by days remaining and appended in that order.
RenderClients(clients, search, z, now) ==
  LET searchTerm == ToLowerCase(search)
      filteredClients == Sort(Filter(clients, searchTerm), z, now)
  IN [i \in DOMAIN filteredClients |-> Item(filteredClients[i], z, now)]

\* fetchClients, from the response on: clients = await response.json();
\* renderClients().
ClientsFetched(list) ==
  /\ page' = [page EXCEPT !.clients = list,
                          !.rendered = RenderClients(list, page.search, page.zone,
                                                     page.now)]
  /\ UNCHANGED <<store, nextId, inflight, res, today, connVars, call>>

\* The input listener of the search bar: renderClients with the new value.
SearchInput(term) ==
  /\ page' = [page EXCEPT !.search = term,
                          !.rendered = RenderClients(page.clients, term, page.zone,
                                                     page.now)]
  /\ UNCHANGED <<store, nextId, inflight, res, today, connVars, call>>

(***************************************************************************)
(* The requests explored.                                                  *)
(***************************************************************************)
NameA == <<"A", "s", "h", "a">>
NameB == <<"R", "a", "v", "i">>
ContactA == <<"9", "8", "7", "6", "5", "4", "3", "2", "1", "0">>
ContactB == <<"9", "1", "2", "3", "4", "5", "6", "7", "8", "0">>
AadhaarA == <<"1", "2", "3", "4", "5", "6", "7", "8", "9", "0", "1", "2">>
AadhaarB == <<"9", "9", "9", "9", "8", "8", "8", "8", "7", "7", "7", "7">>
Asthma == <<"a", "s", "t", "h", "m", "a">>

\* The id a request carries: none, a string that is no ObjectId, or the id
\* of a document the store has assigned or may assign.
IdValues ==
  {Undef, Str(<<"x", "y", "z">>)} \cup {Str(ObjectIdString(k)) : k \in 1..MaxId}

\* The ids of a Replace, <<req.query.id, req.body.id>>: the form sends the id
\* in the body; a caller may send it in the query, or in both.
PutIds ==
  {<<Undef, i>> : i \in IdValues}
    \cup {<<Str(ObjectIdString(1)), Undef>>,
          <<Str(ObjectIdString(1)), Str(ObjectIdString(2))>>}

\* Two complete bodies as the form sends them.
BodyA ==
  [name |-> Str(NameA), contact |-> Str(ContactA), aadhaar |-> Str(AadhaarA),
   heightFt |-> Num(5), heightIn |-> Num(6), weight |-> Num(70),
   goal |-> Str(GainWeight), feesSubmitted |-> Num(1000), feesDue |-> Num(0),
   pt |-> Str(PtNone), months |-> Num(1), feeDate |-> Str(IsoDate(Today0)),
   hasMedicalCondition |-> Bool(TRUE), medicalConditionDetails |-> Str(Asthma)]

BodyB ==
  [name |-> Str(NameB), contact |-> Str(ContactB), aadhaar |-> Str(AadhaarB),
   heightFt |-> Num(5), heightIn |-> Num(9), weight |-> Num(82),
   goal |-> Str(Powerlifting), feesSubmitted |-> Num(500), feesDue |-> Num(250),
   pt |-> Str(PtStandard), months |-> Num(3), feeDate |-> Str(IsoDate(Today0 - 1)),
   hasMedicalCondition |-> Bool(FALSE), medicalConditionDetails |-> Str(<<>>)]

\* Bodies that differ from a complete one in the identifying fields.
KeyBodies ==
  {BodyA, BodyB,
   [BodyA EXCEPT !.contact = Str(ContactB)],
   [BodyB EXCEPT !.aadhaar = Str(<<"1", "2", "3">>)]}

\* Bodies with a required identifying field missing or empty.
RequiredBodies ==
  {BodyA, BodyB}
    \cup {[BodyA EXCEPT !.name = v] : v \in {Undef, Str(<<>>)}}
    \cup {[BodyA EXCEPT !.contact = v] : v \in {Undef, Str(<<>>)}}
    \cup {[BodyA EXCEPT !.aadhaar = v] : v \in {Undef, Str(<<>>)}}
    \cup {[BodyA EXCEPT !.name = Undef, !.feeDate = Str(<<"s", "o", "o", "n">>)]}

\* Bodies that differ in the medical-condition fields: the flag as a
\* boolean, absent, or as the string a loosely typed caller sends.
MedicalBodies ==
  {BodyA, BodyB}
    \cup {[BodyA EXCEPT !.hasMedicalCondition = v] :
            v \in {Undef, Bool(FALSE), Str(<<"f", "a", "l", "s", "e">>)}}
    \cup {[BodyA EXCEPT !.medicalConditionDetails = Undef]}

\* Bodies with optional fields absent.
OptionalBodies ==
  {BodyA, BodyB,
   [BodyA EXCEPT !.weight = Undef],
   [BodyA EXCEPT !.pt = Undef, !.feesDue = Undef],
   [BodyA EXCEPT !.heightFt = Undef, !.heightIn = Undef],
   [BodyA EXCEPT !.medicalConditionDetails = Undef],
   [BodyA EXCEPT !.name = Undef]}

\* Bodies that differ in the membership fields: a fee date of today, of
\* tomorrow or no date at all, and months as a number or as the string of
\* one.
DateBodies ==
  {[BodyA EXCEPT !.feeDate = Str(IsoDate(d)), !.months = m] :
     d \in {today, today + 1}, m \in {Num(1), Num(13)}}
    \cup {[BodyA EXCEPT !.months = Str(<<"3">>), !.feeDate = Str(IsoDate(today))]}
    \cup {[BodyA EXCEPT !.feeDate = Str(<<"s", "o", "o", "n">>)]}

(***************************************************************************)
(* The next-state relation over the handlers that serve Replace requests   *)
(* and a set of bodies, with a store that every connection attempt         *)
(* reaches, and the specifications.                                        *)
(***************************************************************************)
NextOver(handlers, bodies) ==
  \/ \E m \in Methods : DbConnect(m) /\ UNCHANGED page
  \/ ConnectResolves /\ UNCHANGED page
  \/ Get /\ UNCHANGED page
  \/ \E b \in bodies : Post(b) /\ UNCHANGED page
  \/ \E h \in handlers, ids \in PutIds, b \in bodies :
       PutFind(h, ids[1], ids[2], b) /\ UNCHANGED page
  \/ \E h \in handlers : PutUpdate(h) /\ UNCHANGED page
  \/ \E i \in IdValues : Delete(i) /\ UNCHANGED page

\* Requests that differ in the identifying fields, Replace requests
\* overlapping each other and every other request.
Next == NextOver(Handlers, KeyBodies)

Spec == Init /\ [][Next]_vars

\* One Replace at a time, overlapping every other request.
NextRequired == NextOver({1}, RequiredBodies)

SpecRequired == Init /\ [][NextRequired]_vars

NextMedical == NextOver({1}, MedicalBodies)

SpecMedical == Init /\ [][NextMedical]_vars

NextOptional == NextOver({1}, OptionalBodies)

SpecOptional == Init /\ [][NextOptional]_vars

\* Bodies whose contact or aadhaar has the wrong length or a character that
\* is no digit, and one whose contact is ten digits after a space.
FormatBodies ==
  {BodyA, BodyB}
    \cup {[BodyA EXCEPT !.contact = Str(v)] :
            v \in {SubSeq(ContactA, 1, 9), ContactA \o <<"0">>,
                   [ContactA EXCEPT ![6] = "x"], <<" ">> \o ContactA}}
    \cup {[BodyA EXCEPT !.aadhaar = Str(v)] :
            v \in {SubSeq(AadhaarA, 1, 11), AadhaarA \o <<"0">>}}
    \cup {[BodyA EXCEPT !.contact = Str(SubSeq(ContactA, 1, 9)),
                        !.feeDate = Str(<<"s", "o", "o", "n">>)]}

NextFormat == NextOver({1}, FormatBodies)

SpecFormat == Init /\ [][NextFormat]_vars

\* Bodies whose fees or months are negative, zero, no number, or null (what
\* JSON makes of the NaN that the form parses from an empty input).
NumericBodies ==
  {BodyA, BodyB,
   [BodyA EXCEPT !.feesSubmitted = Num(0 - 100)],
   [BodyA EXCEPT !.feesDue = Num(0 - 1)],
   [BodyA EXCEPT !.months = Num(0)],
   [BodyA EXCEPT !.months = Str(<<"a", "b", "c">>)],
   [BodyA EXCEPT !.feesDue = Null]}

NextNumeric == NextOver({1}, NumericBodies)

SpecNumeric == Init /\ [][NextNumeric]_vars

\* The methods the switch does not name.
OtherMethods == Methods \ {"GET", "POST", "PUT", "DELETE"}

\* A store that connection attempts may fail to reach: requests of every
\* method, and the operations of the switch that need no id.
NextConnection ==
  \/ Options /\ UNCHANGED page
  \/ \E m \in Methods : DbConnect(m) /\ UNCHANGED page
  \/ ConnectResolves /\ UNCHANGED page
  \/ ConnectRejects /\ UNCHANGED page
  \/ Unavailable /\ UNCHANGED page
  \/ \E m \in OtherMethods : NotAllowed(m) /\ UNCHANGED page
  \/ Get /\ UNCHANGED page
  \/ \E b \in {BodyA, BodyB} : Post(b) /\ UNCHANGED page
  \/ \E i \in IdValues : Delete(i) /\ UNCHANGED page

SpecConnection == Init /\ [][NextConnection]_vars

\* The values of an id that are no id: none, null and the empty string.
EmptyIds == {Undef, Null, Str(<<>>)}

\* Requests with one complete body, and Replace and Delete requests that
\* carry no id.
NextIds ==
  \/ NextOver({1}, {BodyA})
  \/ \E q \in EmptyIds, i \in EmptyIds :
       PutFind(1, q, i, BodyA) /\ UNCHANGED page
  \/ \E i \in EmptyIds : Delete(i) /\ UNCHANGED page

SpecIds == Init /\ [][NextIds]_vars

\* The whole handler: requests of every method and with every body of
\* KeyBodies, with a store that connection attempts may fail to reach
\* before the first of them succeeds.
NextHandler ==
  \/ NextOver({1}, KeyBodies)
  \/ Options /\ UNCHANGED page
  \/ ConnectRejects /\ UNCHANGED page
  \/ Unavailable /\ UNCHANGED page
  \/ \E m \in OtherMethods : NotAllowed(m) /\ UNCHANGED page

SpecHandler == Init /\ [][NextHandler]_vars

\* Two bodies for the same record: a complete one, and one of another
\* client that leaves the optional measurements and the trainer out.
BodyPartial ==
  [BodyB EXCEPT !.heightFt = Undef, !.heightIn = Undef, !.weight = Undef,
                !.pt = Undef]

ConcurrentBodies == {BodyA, BodyPartial}

\* Replace requests overlapping each other, with bodies that differ in
\* every field and in the fields they carry.
NextConcurrent == NextOver(Handlers, ConcurrentBodies)

SpecConcurrent == Init /\ [][NextConcurrent]_vars

\* The page's calls, each answered in any way the API, the platform or
\* the network can answer it.
NextFetch ==
  \/ \E site \in CallSites : CallStart(site) /\ UNCHANGED page
  \/ \E status \in Statuses : \E text \in StatusTexts(status) :
       FetchResponds(status, text) /\ UNCHANGED page
  \/ \E error \in FetchErrors : FetchFails(error) /\ UNCHANGED page
  \/ DelayEnds /\ UNCHANGED page

SpecFetch == Init /\ [][NextFetch]_vars

\* fetch settles: with a response, with a network error, or at the latest
\* when the timer of timeoutMs aborts it.
FetchSettles ==
  \/ \E status \in Statuses : \E text \in StatusTexts(status) :
       FetchResponds(status, text) /\ UNCHANGED page
  \/ \E error \in FetchErrors : FetchFails(error) /\ UNCHANGED page

\* Every fetch settles and every timer fires.
SpecFetchFair ==
  Init /\ [][NextFetch]_vars /\ WF_vars(FetchSettles)
       /\ WF_vars(DelayEnds /\ UNCHANGED page)

\* The forms submitted: a complete one, and one the page lets through and
\* the schema rejects.
SaveForms == {BodyA, [BodyA EXCEPT !.aadhaar = Str(<<"1", "2", "3">>)]}

\* New clients saved from the page: each request of fetchWithRetry is
\* handled by the API once it is connected, at any time after it was sent,
\* and its response arrives, is replaced by the platform's or is lost.
NextSave ==
  \/ DbConnect("POST") /\ UNCHANGED page
  \/ ConnectResolves /\ UNCHANGED page
  \/ \E b \in SaveForms : SubmitForm(b)
  \/ \E i \in 1..(maxRetries + 1) : ServerPost(i)
  \/ ResponseArrives
  \/ \E text \in StatusTexts(504) : GatewayTimeout(text)
  \/ \E error \in FetchErrors : RequestFails(error)
  \/ Resend

SpecSave == Init /\ [][NextSave]_vars

\* The browser's zone and clock: a zone without daylight saving time, and
\* two with it, in the morning of the day on which the clocks of London go
\* back and of the day after they go forward.
Zones == {Kolkata, London, NewYork}

Nows ==
  {Instant(DaysFromCivil(2024, 10, 27), 9, 0), Instant(DaysFromCivil(2024, 4, 1), 9, 0)}

\* The end dates of the records fetched: UTC midnights, as the API stores
\* them.
EndDays ==
  {DaysFromCivil(2024, 10, 26), DaysFromCivil(2024, 10, 27),
   DaysFromCivil(2024, 10, 28), DaysFromCivil(2024, 3, 31)}

\* The records of a response to List, as far as renderClients orders them.
Fetched(name, d) ==
  [name |-> name, membership |-> [endDate |-> ToISOString(DateV(d))]]

FetchedClients ==
  {Fetched(NameA, d) : d \in EndDays}
    \cup {Fetched(NameB, DaysFromCivil(2024, 10, 28))}

\* The lists of up to MaxListed different records.
ClientLists ==
  {list \in UNION {[1..n -> FetchedClients] : n \in 0..MaxListed} :
     \A i, j \in DOMAIN list : i # j => list[i] # list[j]}

\* What the user types into the search bar.
SearchTerms == {<<>>, <<"A", "s">>, <<"v", "i">>}

InitRender ==
  /\ store = <<>>
  /\ nextId = 1
  /\ inflight = [h \in Handlers |-> Idle]
  /\ res = Response("", 0, "", "", NoDoc)
  /\ today = Today0
  /\ Cold
  /\ call = NoCall
  /\ page \in {[PageLoaded EXCEPT !.zone = z, !.now = now] : z \in Zones, now \in Nows}

\* The list is fetched and the user searches.
NextRender ==
  \/ \E list \in ClientLists : ClientsFetched(list)
  \/ \E term \in SearchTerms : SearchInput(term)

SpecRender == InitRender /\ [][NextRender]_vars

\* What the user can do with a dialog.
DialogActs == {"yes", "no", "backdrop"}

\* The user of the page deleting clients: delete buttons, the dialogs they
\* open, and what the user does with each.
NextDelete ==
  \/ \E k \in 1..MaxId : ClickDeleteButton(ObjectIdString(k))
  \/ \E n \in 1..MaxDialogs, act \in DialogActs : ClickInDialog(n, act)
  \/ PressEscape
  \/ \E n \in 1..MaxDialogs : ModalRemoved(n)
  \/ \E n \in 1..MaxDialogs : DeleteResumes(n)

SpecDelete == Init /\ [][NextDelete]_vars

\* The clock starts on any of StartDays and runs.
InitDates ==
  /\ store = <<>>
  /\ nextId = 1
  /\ inflight = [h \in Handlers |-> Idle]
  /\ res = Response("", 0, "", "", NoDoc)
  /\ today \in StartDays
  /\ Cold
  /\ call = NoCall
  /\ page = PageLoaded

NextDates == NextOver({1}, DateBodies) \/ (Tick /\ UNCHANGED page)

SpecDates == InitDates /\ [][NextDates]_vars

(***************************************************************************)
(* Properties.                                                             *)
(***************************************************************************)
\* A body every field of which is as the data model asks: the three
\* identifying strings present and well formed, the numbers numbers, the
\* enumerated fields among their values, months a whole number of at least
\* one, and the fee date a calendar date.
ValidBody(b) ==
  /\ IsStr(b.name) /\ Trim(b.name.s) # <<>>
  /\ IsStr(b.contact) /\ MatchesDigits(b.contact.s, 10)
  /\ IsStr(b.aadhaar) /\ MatchesDigits(b.aadhaar.s, 12)
  /\ \A v \in {b.heightFt, b.heightIn, b.weight, b.feesSubmitted} : IsNum(v) /\ v.n >= 0
  /\ b.feesDue = Undef \/ (IsNum(b.feesDue) /\ b.feesDue.n >= 0)
  /\ IsStr(b.goal) /\ b.goal.s \in GoalEnum
  /\ b.pt = Undef \/ (IsStr(b.pt) /\ b.pt.s \in PtEnum)
  /\ IsNum(b.months) /\ b.months.n >= 1
  /\ NewDate(b.feeDate).t = "date"
  /\ b.hasMedicalCondition \in {Undef, Bool(TRUE), Bool(FALSE)}
  /\ b.medicalConditionDetails = Undef \/ IsStr(b.medicalConditionDetails)

\* The identifying fields of body b that a stored record other than `self`
\* already carries.
Colliding(st, self, b) ==
  {f \in {"contact", "aadhaar"} : \E k \in DOMAIN st : k # self /\ st[k][f] = b[f]}

\* What every step of a Create, of a Delete and of the second half of a
\* Replace shows, whatever the request.
PostStep == res'.method = "POST" /\ inflight' = inflight /\ today' = today

DeleteStep == res'.method = "DELETE" /\ inflight' = inflight /\ today' = today

PutUpdateStep(h) == inflight[h] # Idle /\ inflight'[h] = Idle

\* C1: in every reachable state of the store, under any interleaving of
\* Create, Replace and Delete, no two distinct records share a contact and
\* no two share an aadhaar.
C1_UniqueKeys ==
  \A j, k \in DOMAIN store :
    j # k => /\ store[j].contact # store[k].contact
             /\ store[j].aadhaar # store[k].aadhaar

\* Two records are stored and a Replace that would have given one the
\* other's key has been answered 409.
C1_Witness ==
  /\ Cardinality(DOMAIN store) = 2
  /\ res.method = "PUT"
  /\ res.status = 409

\* C2 as stated: every Create whose contact or aadhaar equals a stored
\* record's is answered 409 naming a colliding field, and leaves the store
\* as it was.
C2_AnyDuplicateCreate ==
  [][\A b \in KeyBodies :
       (PostStep /\ Colliding(store, NoDoc, b) # {} /\ Post(b))
         => /\ res'.status = 409
            /\ res'.field \in Colliding(store, NoDoc, b)
            /\ store' = store]_vars

\* C2: a Create whose fields are all valid and whose contact or aadhaar
\* equals a stored record's is answered 409 naming a colliding field
\* (contact when only the contact collides, aadhaar when only the aadhaar
\* does), and leaves the store as it was.
C2_ValidDuplicateCreate ==
  [][\A b \in KeyBodies :
       (PostStep /\ Colliding(store, NoDoc, b) # {} /\ ValidBody(b) /\ Post(b))
         => /\ res'.status = 409
            /\ res'.field \in Colliding(store, NoDoc, b)
            /\ store' = store]_vars

\* A Create has been answered 409 naming aadhaar while a record is stored.
C2_Witness ==
  /\ res.method = "POST"
  /\ res.status = 409
  /\ res.field = "aadhaar"
  /\ \E k \in DOMAIN store : store[k].aadhaar = Str(AadhaarA)

\* The calendar, stated by its table: the length of month m of year y.
IsLeapYear(y) == (y % 4 = 0 /\ y % 100 # 0) \/ y % 400 = 0

DaysInMonth(y, m) ==
  CASE m \in {1, 3, 5, 7, 8, 10, 12} -> 31
    [] m \in {4, 6, 9, 11} -> 30
    [] m = 2 -> IF IsLeapYear(y) THEN 29 ELSE 28

\* The day `months` calendar months after day `fee`: the same day of the
\* month that many months on, or, when that month is too short to have it,
\* as many days into the following month as the day exceeds the month.
AdvancedBy(fee, months) ==
  LET c == CivilFromDays(fee)
      index == 12 * c.y + (c.m - 1) + months
      y == index \div 12
      m == (index % 12) + 1
      length == DaysInMonth(y, m)
  IN IF c.d <= length THEN DaysFromCivil(y, m, c.d)
     ELSE DaysFromCivil(IF m = 12 THEN y + 1 ELSE y, IF m = 12 THEN 1 ELSE m + 1,
                        c.d - length)

\* The membership of a stored document is the one body b asks for.
MembershipAdvanced(doc, b) ==
  /\ doc.membership.months = b.months
  /\ doc.membership.feeDate = NewDate(b.feeDate)
  /\ doc.membership.endDate =
       DateV(AdvancedBy(doc.membership.feeDate.d, doc.membership.months.n))

C4_FutureFeeDateRejected ==
  [][\A b \in DateBodies :
       (PostStep /\ ValidBody(b) /\ Post(b))
         => /\ NewDate(b.feeDate).d > today => res'.status = 400 /\ store' = store
            /\ NewDate(b.feeDate).d = today => res'.status \in {201, 409}]_vars

\* C5 as stated: a Create or a Replace whose hasMedicalCondition is false
\* or absent stores empty conditionDetails whatever details it supplies,
\* and hence every stored record whose hasMedicalCondition is false has
\* empty conditionDetails.
C5_NoDetailsWithoutCondition ==
  \A k \in DOMAIN store :
    store[k].medicalCondition.hasMedicalCondition = Bool(FALSE)
      => store[k].medicalCondition.conditionDetails = Str(<<>>)

\* An id of the form of an ObjectId: 24 hexadecimal digits.
WellFormedId(i) ==
  i.t = "string" /\ Len(i.s) = 24 /\ \A n \in 1..Len(i.s) : i.s[n] \in HexChars

\* An id that names no stored record.
NotInStore(i) == i.t = "string" /\ i.s \notin DOMAIN store

\* C6 as stated: a Delete with an id that is not in the store is answered
\* 404 and leaves the store as it was; a Delete of a stored record is
\* answered 200 and leaves its id out of the store, so that the same Delete
\* again is the first case.
C6_DeleteAbsent ==
  [][\A i \in IdValues :
       (DeleteStep /\ i.t = "string" /\ Delete(i))
         => IF NotInStore(i)
            THEN res'.status = 404 /\ store' = store
            ELSE res'.status = 200 /\ i.s \notin DOMAIN store']_vars

\* C7: a Delete with the id of a stored record removes exactly that record
\* and is answered 200 with a deletedClient of the id and the name the
\* record had.
C7_DeleteStored ==
  [][\A i \in IdValues :
       (DeleteStep /\ i.t = "string" /\ i.s \in DOMAIN store /\ Delete(i))
         => /\ res'.status = 200
            /\ res'.doc = [id |-> i.s, name |-> store[i.s].name]
            /\ DOMAIN store' = DOMAIN store \ {i.s}
            /\ \A k \in DOMAIN store' : store'[k] = store[k]]_vars

\* One of two stored records has been deleted, and the other is still there.
C7_Witness ==
  /\ res.method = "DELETE"
  /\ res.status = 200
  /\ res.doc.name = Str(NameA)
  /\ res.doc.id \notin DOMAIN store
  /\ \E k \in DOMAIN store : store[k].name = Str(NameB)

\* C8 as stated: a Replace with an id that is not in the store is answered
\* 404 and leaves the store as it was.
C8_ReplaceAbsent ==
  [][\A h \in Handlers, ids \in PutIds, b \in KeyBodies :
       (/\ inflight[h] = Idle
        /\ NotInStore(JsOr(ids[1], ids[2]))
        /\ PutFind(h, ids[1], ids[2], b))
         => res'.status = 404 /\ res'.method = "PUT" /\ store' = store]_vars

\* What a field of a record is when the request gives v for it: the value,
\* or null when the request has no such field.
OfRequest(v) == IF v = Undef THEN Null ELSE v

\* The record that body b alone determines, under id: every string as
\* given (the trimmed ones trimmed), every number as given, the details of
\* a medical condition only with the condition, the end date from the fee
\* date and the months, and null for every field the body leaves out.
RecordOf(id, b) ==
  [_id |-> id,
   name |-> Str(Trim(b.name.s)),
   contact |-> Str(Trim(b.contact.s)),
   aadhaar |-> Str(Trim(b.aadhaar.s)),
   height |-> [ft |-> OfRequest(b.heightFt), in |-> OfRequest(b.heightIn)],
   weight |-> OfRequest(b.weight),
   goal |-> b.goal,
   medicalCondition |->
     [hasMedicalCondition |->
        IF b.hasMedicalCondition = Undef THEN Bool(FALSE) ELSE b.hasMedicalCondition,
      conditionDetails |->
        IF b.hasMedicalCondition = Bool(TRUE) /\ b.medicalConditionDetails # Undef
        THEN Str(Trim(b.medicalConditionDetails.s))
        ELSE Str(<<>>)],
   fees |-> [submitted |-> b.feesSubmitted, due |-> OfRequest(b.feesDue)],
   pt |-> OfRequest(b.pt),
   membership |-> [months |-> b.months,
                   feeDate |-> NewDate(b.feeDate),
                   endDate |-> DateV(AdvancedBy(NewDate(b.feeDate).d, b.months.n))]]

\* C9: Replace is a whole-record overwrite: after a successful Replace the
\* stored record is the one the request body alone determines, under the
\* same id, so a field absent from the request is null and does not keep
\* the value it had; no other record changes.
C9_WholeRecordOverwrite ==
  [][\A h \in Handlers :
       (PutUpdateStep(h) /\ res'.status = 200 /\ res'.doc # Null /\ PutUpdate(h))
         => /\ DOMAIN store' = DOMAIN store
            /\ store'[inflight[h].id] = RecordOf(inflight[h].id, inflight[h].body)
            /\ res'.doc = store'[inflight[h].id]
            /\ \A k \in DOMAIN store \ {inflight[h].id} : store'[k] = store[k]]_vars

\* A Replace without pt and feesDue has left both null in a record that a
\* Create had stored with their defaults.
C9_Witness ==
  /\ res.method = "PUT"
  /\ res.status = 200
  /\ res.doc # Null
  /\ res.doc.pt = Null
  /\ res.doc.fees.due = Null
  /\ res.doc._id \in DOMAIN store
  /\ store[res.doc._id] = res.doc

\* A body whose name, contact or aadhaar is missing or empty.
LacksRequired(b) ==
  \E v \in {b.name, b.contact, b.aadhaar} : v = Undef \/ v = Str(<<>>)

BadFormatGiven(b) ==
  ~MatchesDigits(b.contact.s, 10) \/ ~MatchesDigits(b.aadhaar.s, 12)

BadFormat(b) ==
  ~MatchesDigits(Trim(b.contact.s), 10) \/ ~MatchesDigits(Trim(b.aadhaar.s), 12)

\* Every record of collection st has a contact of ten digits and an
\* aadhaar of twelve.
WellFormedKeys(st) ==
  \A k \in DOMAIN st :
    /\ IsStr(st[k].contact) /\ MatchesDigits(st[k].contact.s, 10)
    /\ IsStr(st[k].aadhaar) /\ MatchesDigits(st[k].aadhaar.s, 12)

C12_NumbersInRange ==
  \A k \in DOMAIN store :
    /\ IsNum(store[k].fees.submitted) /\ store[k].fees.submitted.n >= 0
    /\ IsNum(store[k].fees.due) /\ store[k].fees.due.n >= 0
    /\ IsNum(store[k].membership.months) /\ store[k].membership.months.n >= 1

\* The allowed-verb list of a 405.
AllowedVerbs == [t |-> "allowed", methods |-> <<"GET", "POST", "PUT", "DELETE">>]

\* C13 as stated: every request whose method is not GET, POST, PUT or
\* DELETE is answered 405 with the allowed-verb list, whatever the state of
\* the store connection.
C13_OtherMethodsAre405 ==
  [][res'.method \in OtherMethods \cup {"OPTIONS"}
       => res'.status = 405 /\ res'.doc = AllowedVerbs]_vars

\* C13: a request whose method is not GET, POST, PUT, DELETE or OPTIONS is
\* answered 405 with the allowed-verb list once the store connection is
\* established, and leaves the store as it was; when the connection attempt
\* it awaits fails it is answered 503 like any other request.  OPTIONS is
\* answered 200 with no body.
C13_OtherMethods ==
  [][/\ \A m \in OtherMethods :
          /\ NotAllowed(m)
               => /\ res'.method = m
                  /\ res'.status = 405
                  /\ res'.doc = AllowedVerbs
                  /\ store' = store
          /\ (waiting # <<>> /\ Head(waiting) = m /\ Unavailable)
               => res'.method = m /\ res'.status = 503
     /\ res'.method \in OtherMethods => res'.status \in {405, 503}
     /\ res'.method = "OPTIONS" => res'.status = 200 /\ res'.doc = NoDoc]_vars

\* A PATCH has been answered 405 over a connection established at the
\* second attempt.
C13_Witness ==
  /\ res.method = "PATCH"
  /\ res.status = 405
  /\ connects = 2
  /\ cached.conn = Mongoose

\* C14: when a connection attempt fails, every request that awaits it is
\* answered 503 before anything else happens, the handler answering rather
\* than throwing, and no store operation is made for it.
C14_Unavailable ==
  [][/\ (cached.promise = Pending /\ cached'.promise \notin {Pending, Resolved})
          => waiting' = waiting /\ waiting # <<>>
     /\ Draining
          => /\ store' = store /\ nextId' = nextId /\ inflight' = inflight
             /\ waiting' = Tail(waiting)
             /\ res'.method = Head(waiting)
             /\ res'.status = 503]_vars

\* A POST that awaited a failed attempt has been answered 503, and nothing
\* is stored.
C14_Witness ==
  /\ res.method = "POST"
  /\ res.status = 503
  /\ store = <<>>
  /\ waiting = <<>>
  /\ connects = 1

\* C15: once a call of dbConnect has succeeded (cached.conn is set), no
\* step starts a connection attempt, and every request that calls
\* dbConnect goes straight on with the cache as it is.
C15_ConnectionReused ==
  [][cached.conn # Null
       => /\ connects' = connects
          /\ \A m \in Methods : DbConnect(m) => cached' = cached /\ waiting' = waiting]_vars

\* A List has been answered over the connection that the second attempt
\* established, the first having failed.
C15_Witness ==
  /\ cached = [conn |-> Mongoose, promise |-> Resolved]
  /\ connects = 2
  /\ res.method = "GET"
  /\ res.status = 200

\* C16: a connection attempt that fails leaves cached.conn and
\* cached.promise null, they are null while the requests that awaited it
\* are answered, and the next request that calls dbConnect starts a fresh
\* attempt and awaits that one.
C16_FreshAttemptAfterFailure ==
  [][/\ (cached.promise = Pending /\ cached'.promise \notin {Pending, Resolved})
          => cached' = [conn |-> Null, promise |-> Null]
     /\ (waiting' # <<>> /\ cached'.promise # Pending)
          => cached' = [conn |-> Null, promise |-> Null]
     /\ \A m \in Methods :
          (connects > 0 /\ cached.promise \notin {Pending, Resolved} /\ DbConnect(m))
            => /\ connects' = connects + 1
               /\ cached'.promise = Pending
               /\ waiting' = Append(waiting, m)]_vars

\* After a failed attempt, answered 503, a second attempt is under way.
C16_Witness ==
  /\ connects = 2
  /\ cached.promise = Pending
  /\ res.status = 503
  /\ Len(waiting) = 1


(***************************************************************************)
(* fetchWithRetry.                                                         *)
(***************************************************************************)
\* The call is over: it has returned to its caller or thrown to it.
CallOver == call.at \in {"returned", "threw"}

\* C17: fetchWithRetry always terminates.  Whatever the responses and the
\* network failures, a call issues at most maxRetries + 1 = 4 requests (the
\* request it is at is the one more than the retries it has used), what it
\* returns is an ok response and what it throws is an error, and every call
\* that is fetching comes to return or to throw.
C17_BoundedRetries ==
  /\ [](/\ call.requests <= maxRetries + 1
        /\ call.at # "none" => call.requests = maxRetries - call.retries + 1
        /\ call.at = "returned" =>
             call.outcome.t = "response" /\ Ok(call.outcome.status)
        /\ call.at = "threw" => call.outcome.t = "error")
  /\ ((call.at = "fetching") ~> CallOver)

\* A call that threw after its fourth request, with no retry left.
C17_Witness ==
  /\ call.at = "threw"
  /\ call.requests = maxRetries + 1
  /\ call.retries = 0

\* The statuses of a request the client must change before sending again.
NotRetryable == {400, 404, 409}

\* What a wait before another request may follow: a 5xx response, or an
\* error that fetch itself rejected with (a network failure or the abort of
\* the timeout).
RetryCause(outcome) ==
  \/ outcome.t = "response" /\ outcome.status >= 500
  \/ outcome.t = "error" /\ outcome.error \in FetchErrors

\* C18: a request answered 400, 404 or 409 is never retried: the call throws
\* the HTTP error at once, having issued no request after it (exactly one
\* when it was the first answer), and nothing follows a thrown call but a
\* new call.  A wait before another request only follows a 5xx response or
\* a network or timeout error.
C18_ClientErrorsNotRetried ==
  [][/\ \A status \in NotRetryable : \A text \in StatusTexts(status) :
          FetchResponds(status, text) =>
            /\ call'.at = "threw"
            /\ call'.requests = call.requests
            /\ call'.outcome = ErrorOutcome(HttpError(status, text))
     /\ call.at = "threw" /\ call' # call =>
          call'.at = "fetching" /\ call'.requests = 1
     /\ call'.at = "delay" /\ call.at # "delay" => RetryCause(call'.outcome)
    ]_vars

\* The first answer of a Create was 409 and the call threw after that one
\* request.
C18_Witness ==
  /\ call.at = "threw"
  /\ call.site = "POST"
  /\ call.requests = 1
  /\ call.outcome = ErrorOutcome(HttpError(409, ReasonPhrase(409)))

(***************************************************************************)
(* Idempotence.                                                            *)
(***************************************************************************)
\* What Client.find({}).lean() returns of collection st.
Listed(st) == [t |-> "list", docs |-> {st[k] : k \in DOMAIN st}]

\* What the Replace of the record id by body b, served from its findById
\* to its answer with no other request between, leaves of collection st and
\* answers: the status, the document of the body, and the fields a 409 can
\* name.
ReplaceAlone(st, id, b) ==
  LET doc == CastPaths(UpdateData(b))
      outcome == UpdateOutcome(st, id, doc)
      answer(status, d, fields) ==
        [store |-> st, status |-> status, doc |-> d, fields |-> fields]
  IN IF FindById(st, id) = Null THEN answer(404, NoDoc, {})
     ELSE CASE outcome = "cast" -> answer(500, NoDoc, {})
            [] outcome = "invalid" -> answer(400, NoDoc, {})
            [] outcome = "duplicate" ->
                 answer(409, NoDoc, DuplicateKeys(st, id, doc))
            [] outcome = "ok" ->
                 [store |-> With(st, id, ApplySet(st[id], doc)), status |-> 200,
                  doc |-> ApplySet(st[id], doc), fields |-> {}]

\* A step of List.
GetStep == res'.method = "GET" /\ inflight' = inflight /\ today' = today

\* C19: Replace and List are idempotent.  Whenever a Replace updates a
\* record that is in the store, what it leaves and answers is what the
\* Replace served alone leaves and answers, and the same Replace served
\* again right after it leaves the same store and gives the same answer (the
\* same record when it succeeded); a List leaves the store as it was and
\* answers the records of the store, so that a List right after it answers
\* the same.
C19_ReplaceAndListIdempotent ==
  [][/\ \A h \in Handlers :
          (PutUpdateStep(h) /\ inflight[h].id \in DOMAIN store) =>
            LET id == inflight[h].id
                b == inflight[h].body
                once == ReplaceAlone(store, id, b)
                twice == ReplaceAlone(once.store, id, b)
            IN /\ store' = once.store
               /\ res'.status = once.status
               /\ res'.doc = once.doc
               /\ once.status = 409 => res'.field \in once.fields
               /\ twice = once
     /\ (GetStep /\ Get) =>
          /\ store' = store
          /\ res'.doc = Listed(store)
          /\ Listed(store') = Listed(store)
    ]_vars

\* A Replace has just rewritten a record with the body that has the name of
\* one complete body and the contact of the other, and answered the record.
C19_Witness ==
  /\ res.method = "PUT"
  /\ res.status = 200
  /\ res.doc # Null
  /\ res.doc.name = Str(NameA)
  /\ res.doc.contact = Str(ContactB)
  /\ \E k \in DOMAIN store : store[k] = res.doc

(***************************************************************************)
(* Concurrent Replace requests.                                            *)
(***************************************************************************)
\* Handler h is between its findById and its update of record k.
Replacing(h, k) == inflight[h] # Idle /\ inflight[h].id = k

\* C20: last write wins on concurrent Replace requests to the same id.
\* Whenever a stored record changes, one Replace has applied its update
\* and the record is the full record of that request alone, whatever
\* other Replace of the same id is in flight, was applied before it or will
\* be applied after it; a Replace that is answered an error writes nothing.
\* So after two overlapping Replace requests the record is the full record
\* of the one applied last, never a mixture of the two.
C20_LastWriteWins ==
  [][\A k \in DOMAIN store \cap DOMAIN store' :
       store'[k] # store[k] =>
         \E h \in Handlers :
           /\ Replacing(h, k)
           /\ PutUpdateStep(h)
           /\ res'.status = 200
           /\ store'[k] = RecordOf(k, inflight[h].body)
           /\ \A g \in Handlers \ {h} : inflight'[g] = inflight[g]
           /\ \A j \in DOMAIN store \ {k} : j \in DOMAIN store' /\ store'[j] = store[j]
    ]_vars

\* The Replace with the partial body has been applied to a record while a
\* Replace of the same record with the complete body is in flight: the
\* record is the one of the partial body, its missing fields null.
C20_Witness ==
  \E k \in DOMAIN store : \E g \in Handlers :
    /\ Replacing(g, k)
    /\ inflight[g].body = BodyA
    /\ res.method = "PUT"
    /\ res.status = 200
    /\ res.doc = store[k]
    /\ store[k] = RecordOf(k, BodyPartial)
    /\ store[k].weight = Null

(***************************************************************************)
(* What a request touches.                                                 *)
(***************************************************************************)
\* The ids whose record a step creates, rewrites or removes.
Changed ==
  {k \in DOMAIN store \cup DOMAIN store' : FindById(store, k) # FindById(store', k)}

\* C21: each request changes at most one record.  A Create changes none but
\* the record it creates, a Replace none but the record its id addresses, a
\* Delete none but the record its id addresses, and a List changes none:
\* every other stored record is as it was.
C21_OneRecordPerRequest ==
  [][/\ Cardinality(Changed) <= 1
     /\ PostStep => Changed \subseteq {ObjectIdString(nextId)}
     /\ \A h \in Handlers : PutUpdateStep(h) => Changed \subseteq {inflight[h].id}
     /\ \A i \in IdValues :
          (DeleteStep /\ Delete(i)) => (Changed # {} => Changed = {i.s})
     /\ GetStep => Changed = {}
    ]_vars

\* A Delete has removed one of two records and the other is still stored.
C21_Witness ==
  /\ res.method = "DELETE"
  /\ res.status = 200
  /\ nextId = MaxId + 1
  /\ Cardinality(DOMAIN store) = 1
  /\ \A k \in DOMAIN store : store[k]._id # res.doc.id

(***************************************************************************)
(* The responses.                                                          *)
(***************************************************************************)
\* The statuses of the failures the handler tells apart.
ErrorStatuses == {400, 404, 405, 409, 500, 503}

\* A response is a success (200, 201) or a failure of one of ErrorStatuses
\* whose body carries a message.
Classified(r) ==
  /\ r.status \in {200, 201} \cup ErrorStatuses
  /\ r.status \in ErrorStatuses => r.message # ""

PutAnswerStep == res'.method = "PUT" /\ inflight' = inflight /\ today' = today

\* C23: Replace and Delete require an id.  A Replace whose query and body
\* both carry no id (none, null or the empty string) is answered 400 and
\* goes on to no findById and no update; a Delete whose body carries no id
\* is answered 400; either leaves the store as it was.
C23_IdRequired ==
  [][/\ \A q \in EmptyIds, i \in EmptyIds :
          (PutAnswerStep /\ inflight[1] = Idle /\ PutFind(1, q, i, BodyA)) =>
            /\ res'.status = 400
            /\ res'.message = "Client ID is required for update."
            /\ store' = store
     /\ \A q \in EmptyIds, i \in EmptyIds :
          ~ENABLED (PutFind(1, q, i, BodyA) /\ UNCHANGED page
                      /\ inflight'[1] # Idle)
     /\ \A i \in EmptyIds :
          (DeleteStep /\ Delete(i)) =>
            /\ res'.status = 400
            /\ res'.message = "Client ID is required for deletion."
            /\ store' = store
    ]_vars

\* A Delete without an id has been answered 400 with a record in the store,
\* which is still there.
C23_Witness ==
  /\ res.method = "DELETE"
  /\ res.status = 400
  /\ store # <<>>

(***************************************************************************)
(* The confirm step of a delete.                                           *)
(***************************************************************************)
\* C24: the page issues no DELETE request unless the confirm dialog of that
\* delete action has resolved true.  A DELETE request has been issued only
\* for a dialog whose promise is settled with true and whose Delete button
\* was what the user used first; a dialog the user first cancelled, clicked
\* the backdrop of or pressed Escape on is settled with false whatever is
\* clicked afterwards, and issues none; a settled promise does not change.
C24_DeleteOnlyConfirmed ==
  /\ [](\A n \in DOMAIN page.dialogs :
          LET d == page.dialogs[n]
          IN /\ d.issued => d.settled = "true" /\ d.first = "yes"
             /\ d.first \in {"no", "backdrop", "escape"} =>
                  d.settled = "false" /\ ~d.issued)
  /\ [][\A n \in DOMAIN page.dialogs :
          page.dialogs[n].settled # "pending" =>
            page'.dialogs[n].settled = page.dialogs[n].settled]_vars

\* Two dialogs: the first was cancelled and its handleDelete returned without
\* a request; the second was confirmed and its DELETE request issued.
C24_Witness ==
  /\ Len(page.dialogs) = 2
  /\ page.dialogs[1].first = "no"
  /\ page.dialogs[1].resumed
  /\ ~page.dialogs[1].issued
  /\ page.dialogs[2].first = "yes"
  /\ page.dialogs[2].issued

(***************************************************************************)
(* The list the page shows.                                                *)
(***************************************************************************)
\* By how many local days the end date of a rendered item is after the
\* browser's today.
DaysAhead(item) ==
  LocalDay(page.zone, ParseInstant(item.client.membership.endDate).n)
    - LocalDay(page.zone, page.now)

\* C25 as stated: for the today of the browser, daysRemaining is 0 for an
\* end date that is today, 1 for one that is tomorrow and -1 for one that
\* was yesterday, and a record is shown as overdue exactly when its
\* daysRemaining is less than 0.
C25_DaysRemaining ==
  \A i \in DOMAIN page.rendered :
    LET item == page.rendered[i]
    IN /\ DaysAhead(item) = 0 => item.daysRemaining = 0
       /\ DaysAhead(item) = 1 => item.daysRemaining = 1
       /\ DaysAhead(item) = 0 - 1 => item.daysRemaining = 0 - 1
       /\ item.isOverdue <=> item.daysRemaining < 0

\* The records of the page whose name has the search term, in any case.
Matching ==
  {page.clients[i] : i \in
     {j \in DOMAIN page.clients :
        Includes(ToLowerCase(page.clients[j].name), ToLowerCase(page.search))}}

\* C26: renderClients renders the records that match the search term in
\* ascending order of daysRemaining: of two adjacent rendered records the
\* earlier has a daysRemaining no greater than the later, each with the
\* daysRemaining of its own end date, and the rendered records are exactly
\* the matching ones, each once.
C26_RenderedSortedAndFiltered ==
  /\ \A i \in DOMAIN page.rendered :
       /\ i > 1 => page.rendered[i - 1].daysRemaining <= page.rendered[i].daysRemaining
       /\ page.rendered[i].daysRemaining =
            CalculateDaysRemaining(page.rendered[i].client.membership.endDate,
                                   page.zone, page.now).n
  /\ {page.rendered[i].client : i \in DOMAIN page.rendered} = Matching
  /\ Len(page.rendered) = Cardinality(Matching)

\* Three records were fetched in descending order of their end dates, one of
\* them with another name; the search term, typed in upper case, leaves the
\* two of one name, rendered in ascending order.
C26_Witness ==
  /\ Len(page.clients) = 3
  /\ page.search = <<"A", "s">>
  /\ Len(page.rendered) = 2
  /\ page.rendered[1].daysRemaining < page.rendered[2].daysRemaining
  /\ page.clients[1] = page.rendered[2].client
  /\ page.clients[3] = page.rendered[1].client
(***************************************************************************)
(* C27: the message of a rejected save.                                    *)
(***************************************************************************)
\* fetchWithRetry threw for a response of this status.
RejectedWith(status) ==
  /\ call.at = "threw"
  /\ call.site = "POST"
  /\ \E text \in StatusTexts(status) : call.outcome.error = HttpError(status, text)

\* C27: when a save is rejected with 409 the message handleFormSubmit shows
\* is the one about a duplicate contact number or Aadhaar, and when it is
\* rejected with 400 it is the one about the input data.
C27_SpecificReason ==
  /\ RejectedWith(409) => page.message = SavePrefix \o DuplicateText
  /\ RejectedWith(400) => page.message = SavePrefix \o InputDataText

(***************************************************************************)
(* C28: a Replace whose record is deleted before its update.               *)
(***************************************************************************)
\* C28: a Replace whose id is not in the store when findByIdAndUpdate runs
\* (the record was deleted after findById found it) is not answered 200: it
\* is answered 404 when its body is valid, and the store is left as it was.
C28_ReplaceAbsentAtUpdate ==
  [][\A h \in Handlers :
       (PutUpdateStep(h) /\ inflight[h].id \notin DOMAIN store)
         => /\ res'.method = "PUT"
            /\ res'.status # 200
            /\ (UpdateOutcome(store, inflight[h].id,
                              CastPaths(UpdateData(inflight[h].body))) = "absent"
                  => res'.status = 404)
            /\ store' = store]_vars

(***************************************************************************)
(* C29: one submission inserts at most one record.                         *)
(***************************************************************************)
\* The requests of the submission that the API answered with this status.
AnsweredWith(status) ==
  {i \in DOMAIN page.wire :
     page.wire[i].at = "answered" /\ page.wire[i].status = status}

\* C29: of the requests fetchWithRetry sends for one submission of a new
\* client at most one is answered 201 and the others the API handles after
\* it are answered 409; the store gains a record only in the step that
\* answers a request 201, and then one record.
C29_OneInsertPerSubmission ==
  /\ [](Cardinality(AnsweredWith(201)) <= 1)
  /\ [](AnsweredWith(201) # {} =>
          \A i \in DOMAIN page.wire :
            page.wire[i].at = "answered" => page.wire[i].status \in {201, 409})
  /\ [][/\ store' # store =>
             /\ Cardinality(DOMAIN store') = Cardinality(DOMAIN store) + 1
             /\ \E i \in DOMAIN page.wire :
                  /\ page.wire[i].at = "sent"
                  /\ page'.wire[i].status = 201
        /\ \A i \in DOMAIN page.wire :
             (page.wire[i].at = "sent" /\ i \in DOMAIN page'.wire
                /\ page'.wire[i].at = "answered" /\ AnsweredWith(201) # {})
               => page'.wire[i].status = 409 /\ store' = store]_vars

\* fetchWithRetry has sent the POST again after the first one was stored,
\* the API has rejected the second as a duplicate, and one record is stored.
C29_Witness ==
  /\ call.requests >= 2
  /\ Len(page.wire) >= 2
  /\ page.wire[1].status = 201
  /\ page.wire[2].status = 409
  /\ Cardinality(DOMAIN store) = 1
  /\ call.at = "threw"

(***************************************************************************)
(* C30: one connection attempt at a time.                                  *)
(***************************************************************************)
\* C30: a connection attempt is started only while none is pending, so at
\* most one is in flight; a request that calls dbConnect while an attempt
\* is pending starts none and awaits the promise of the cache with the
\* requests already awaiting it; and while the requests that awaited a
\* failed attempt run their catch blocks, which reset the cache again, no
\* new request calls dbConnect and the cache is null and stays null, so no
\* reset removes the promise of a newer attempt.
C30_OneAttemptInFlight ==
  /\ [][connects' # connects
          => /\ cached.promise # Pending
             /\ cached'.promise = Pending
             /\ connects' = connects + 1]_vars
  /\ [][\A m \in Methods :
          (cached.promise = Pending /\ DbConnect(m))
            => /\ connects' = connects
               /\ cached' = cached
               /\ waiting' = Append(waiting, m)]_vars
  /\ [][(cached.promise = Pending /\ cached'.promise # Pending)
          => \/ cached'.promise = Resolved /\ waiting' = <<>>
             \/ cached' = [conn |-> Null, promise |-> Null] /\ waiting' = waiting]_vars
  /\ [][Draining => cached = [conn |-> Null, promise |-> Null] /\ cached' = cached]_vars
  /\ [](Draining => \A m \in Methods : ~ENABLED (DbConnect(m) /\ UNCHANGED page))

\* Two requests await the second attempt, which was started after the
\* first had failed and its request had been answered 503.
C30_Witness ==
  /\ connects = 2
  /\ cached.promise = Pending
  /\ Len(waiting) = 2
  /\ res.status = 503

====
